---- MODULE Spec2Model ----
(***************************************************************************)
(* hono-simple-google-auth: the session store, the two authentication     *)
(* strategies (LivemodeAuthImplementation, TestmodeAuthImplementation) and *)
(* the routes / session middleware of honoSimpleGoogleAuth.                *)
(*                                                                         *)
(* A request is handled in steps that each end at the request's store or   *)
(* verifier call (a handler's code between two such calls touches only the *)
(* request's own context).  The store is the host's key-value map; each    *)
(* call to it either returns or throws, and a call that throws leaves the  *)
(* map as it was.                                                          *)
(***************************************************************************)
EXTENDS Integers, Sequences, FiniteSets, TLC

----------------------------------------------------------------------------
(* Bounds of the model *)

\* number of session ids crypto.randomUUID() can hand out in one run
MaxFresh == 1
\* cookies in one Cookie header
MaxPairs == 2

----------------------------------------------------------------------------
(* Values *)

\* a JavaScript `undefined`
Undef == "<undefined>"

\* JavaScript truthiness of an optional string
Truthy(x) == x # Undef /\ x # ""

TEST_SESSION_ID == "testmode-session"
ScopeCookieName == "testmode-session-id"
DefaultCookieName == "auth_session_cookie"
DefaultSessionDuration == 3600 * 24 * 365
TestCredential == "test-credential"
NoMaxAge == 0 - 1

Uuid(n) == IF n = 1 THEN "uuid-1" ELSE IF n = 2 THEN "uuid-2" ELSE "uuid-3"

\* ValidSessionData / InvalidSessionData in one record shape
ValidSession(id, n, e, cred) ==
    [signedIn |-> TRUE, sessionId |-> id, name |-> n, email |-> e,
     credential |-> cred, error |-> Undef]
InvalidSession(err) ==
    [signedIn |-> FALSE, sessionId |-> Undef, name |-> Undef, email |-> Undef,
     credential |-> Undef, error |-> err]
NoSession == InvalidSession("<unset>")

----------------------------------------------------------------------------
(* Cookie headers.  A header is a list of `;`-separated cookie strings; a   *)
(* cookie string is name=seg1=seg2..., kept as its name and the list of     *)
(* `=`-separated segments after it (no segment: the string has no `=`).     *)

Pair(n, segs) == [name |-> n, val |-> segs]
Header(ps) == [present |-> TRUE, pairs |-> ps]
NoHeader == [present |-> FALSE, pairs |-> <<>>]

RECURSIVE JoinSegs(_)
JoinSegs(segs) ==
    IF Len(segs) = 0 THEN ""
    ELSE IF Len(segs) = 1 THEN segs[1]
    ELSE segs[1] \o "=" \o JoinSegs(Tail(segs))

\* the parse falling back to the primary session cookie before the default id
TestmodeSessionIdFromPrimary(h) ==
    IF ~h.present \/ Len(h.pairs) = 0 THEN TEST_SESSION_ID
    ELSE LET hits == {i \in 1..Len(h.pairs) :
                        /\ h.pairs[i].name = ScopeCookieName
                        /\ Len(h.pairs[i].val) >= 1}
             prim == {i \in 1..Len(h.pairs) :
                        /\ h.pairs[i].name = DefaultCookieName
                        /\ Len(h.pairs[i].val) >= 1}
         IN IF hits # {}
            THEN LET i == CHOOSE j \in hits : \A k \in hits : j <= k
                 IN h.pairs[i].val[1]
            ELSE IF prim # {}
            THEN LET i == CHOOSE j \in prim : \A k \in prim : j <= k
                 IN h.pairs[i].val[1]
            ELSE TEST_SESSION_ID

\* cookieHeader.split(';').map(trim).find(startsWith('testmode-session-id='))
\* then sessionCookie.split('=')[1]; the default id when nothing is found
TestmodeSessionId(h) ==
    IF ~h.present \/ Len(h.pairs) = 0 THEN TEST_SESSION_ID
    ELSE LET hits == {i \in 1..Len(h.pairs) :
                        /\ h.pairs[i].name = ScopeCookieName
                        /\ Len(h.pairs[i].val) >= 1}
         IN IF hits = {} THEN TEST_SESSION_ID
            ELSE LET i == CHOOSE j \in hits : \A k \in hits : j <= k
                 IN h.pairs[i].val[1]

\* the same lines once more in signinImpl
SigninSessionId(h) ==
    IF ~h.present \/ Len(h.pairs) = 0 THEN TEST_SESSION_ID
    ELSE LET hits == {i \in 1..Len(h.pairs) :
                        /\ h.pairs[i].name = ScopeCookieName
                        /\ Len(h.pairs[i].val) >= 1}
         IN IF hits = {} THEN TEST_SESSION_ID
            ELSE LET i == CHOOSE j \in hits : \A k \in hits : j <= k
                 IN h.pairs[i].val[1]

\* the parse of signoutImpl taking the last scoping cookie of the header
\* where the other two handlers take the first
SignoutSessionIdLast(h) ==
    IF ~h.present \/ Len(h.pairs) = 0 THEN TEST_SESSION_ID
    ELSE LET hits == {i \in 1..Len(h.pairs) :
                        /\ h.pairs[i].name = ScopeCookieName
                        /\ Len(h.pairs[i].val) >= 1}
         IN IF hits = {} THEN TEST_SESSION_ID
            ELSE LET i == CHOOSE j \in hits : \A k \in hits : j >= k
                 IN h.pairs[i].val[1]

\* and a third time in signoutImpl
SignoutSessionId(h) ==
    IF ~h.present \/ Len(h.pairs) = 0 THEN TEST_SESSION_ID
    ELSE LET hits == {i \in 1..Len(h.pairs) :
                        /\ h.pairs[i].name = ScopeCookieName
                        /\ Len(h.pairs[i].val) >= 1}
         IN IF hits = {} THEN TEST_SESSION_ID
            ELSE LET i == CHOOSE j \in hits : \A k \in hits : j <= k
                 IN h.pairs[i].val[1]

\* s.split('=') for the session ids used here
SegmentsOf(v) == IF v = "a=b" THEN <<"a", "b">> ELSE <<v>>

\* the Cookie header of a client that sends a cookie back as it was set:
\* `name=value`, as the handlers' split(';') and split('=') will cut it
EchoHeader(cookie) == Header(<<Pair(cookie.name, SegmentsOf(cookie.value))>>)

\* getCookie(c, name) of hono/cookie: the value of the first cookie of that
\* name, undefined when there is none
GetCookie(h, n) ==
    IF ~h.present THEN Undef
    ELSE LET hits == {i \in 1..Len(h.pairs) :
                        /\ h.pairs[i].name = n
                        /\ Len(h.pairs[i].val) >= 1}
         IN IF hits = {} THEN Undef
            ELSE LET i == CHOOSE j \in hits : \A k \in hits : j <= k
                 IN JoinSegs(h.pairs[i].val)

\* a Set-Cookie entry of a response
SetCookie(n, v, http, age, dom) ==
    [name |-> n, value |-> v, path |-> "/", sameSite |-> "Lax",
     httpOnly |-> http, maxAge |-> age, domain |-> dom]

----------------------------------------------------------------------------
(* Responses *)

NoResponse ==
    [status |-> 0, kind |-> "none", text |-> "", session |-> NoSession,
     location |-> "", setCookie |-> <<>>]
Redirect(loc, cookies) ==
    [status |-> 302, kind |-> "redirect", text |-> "", session |-> NoSession,
     location |-> loc, setCookie |-> cookies]
Text(t) ==
    [status |-> 200, kind |-> "text", text |-> t, session |-> NoSession,
     location |-> "", setCookie |-> <<>>]
Html(t) ==
    [status |-> 200, kind |-> "html", text |-> t, session |-> NoSession,
     location |-> "", setCookie |-> <<>>]
JsonError(st, msg) ==
    [status |-> st, kind |-> "json-error", text |-> msg, session |-> NoSession,
     location |-> "", setCookie |-> <<>>]
JsonSession(msg, s, cookies) ==
    [status |-> 200, kind |-> "json", text |-> msg, session |-> s,
     location |-> "", setCookie |-> cookies]

----------------------------------------------------------------------------
(* Options, request inputs *)

\* what the options provider returns for a request
Options(m, cn, cd, dur, render) ==
    [mode |-> m, cookieName |-> cn, cookieDomain |-> cd,
     sessionDurationSeconds |-> dur, renderSignInPage |-> render]

\* options.cookieName || 'auth_session_cookie'
CookieNameOf(opts) ==
    IF Truthy(opts.cookieName) THEN opts.cookieName ELSE DefaultCookieName

\* options.sessionDurationSeconds || 3600 * 24 * 365  (0 and undefined are
\* both falsy; NoMaxAge stands for an unconfigured duration)
SessionDurationOf(opts) ==
    IF opts.sessionDurationSeconds = NoMaxAge \/ opts.sessionDurationSeconds = 0
    THEN DefaultSessionDuration ELSE opts.sessionDurationSeconds

\* a request body: for POST /test/signin the JSON text (syntax "malformed":
\* c.req.json() throws; "null": it parses to null; "object": it parses to a
\* value whose absent fields read as undefined), for POST /callback the
\* form field credential
Body(syn, n, e, sid, cred) ==
    [syntax |-> syn, name |-> n, email |-> e, sessionID |-> sid,
     credential |-> cred]
NoBody == Body("object", Undef, Undef, Undef, Undef)

\* TokenInfo as far as the callback reads it
TokenInfo(n, e) == [name |-> n, email |-> e]
NoTokenInfo == TokenInfo(Undef, Undef)

\* the verifier's answer to a request: its kind ("ok": 2xx with a JSON
\* body, "non2xx", "raises": the fetch rejects) and the claims of a 2xx body
VerifierReply(kind, info) == [kind |-> kind, info |-> info]
NoReply == VerifierReply("none", NoTokenInfo)

\* the per-request context c: inputs, c.var.session, the response, the calls
\* made on the request's behalf, in order, and what the environment did to
\* them (out: the store call returned "ok" or "throws"; reply: the verifier's
\* answer)
IdleCtx ==
    [pc |-> "idle", route |-> "none", options |-> Options("livemode", Undef, Undef, NoMaxAge, FALSE),
     header |-> NoHeader, body |-> NoBody, sid |-> Undef,
     sessionSet |-> FALSE, session |-> NoSession, resp |-> NoResponse,
     calls |-> <<>>, tokenInfo |-> NoTokenInfo,
     out |-> "none", reply |-> NoReply, app |-> "app1"]

NewCtx(route, opts, h, b) ==
    [IdleCtx EXCEPT !.route = route, !.options = opts, !.header = h, !.body = b]

\* optionsMiddleware: provider(c), then the strategy is chosen by options.mode
OptionsMiddleware(c) ==
    [c EXCEPT !.calls = Append(@, "provider")]
IsTestmode(c) == c.options.mode = "testmode"

Outcomes == {"ok", "throws"}

----------------------------------------------------------------------------
(* State *)

VARIABLES
    store,          \* the host's session store: sessionId -> ValidSessionData
    storeHasDelete, \* whether the store object has the optional delete
    req,            \* the request contexts, one per request slot
    freshUsed,      \* how many ids crypto.randomUUID() has handed out
    activeSignin,   \* history: id -> (name, email) of the last successful
                    \* test sign-in for the id, until a sign-out or another
                    \* sign-in for that id
    signedOut,      \* history: ids whose sign-out completed with a delete
                    \* that succeeded, until the next successful test
                    \* sign-in for the id
    storeB,         \* the session store of a second auth instance
    kv              \* the KVNamespace behind createKVSessionStore: key -> text

vars == <<store, storeHasDelete, req, freshUsed, activeSignin, signedOut, storeB, kv>>

Slots == DOMAIN req
Free(r) == req[r].pc \in {"idle", "done", "raised"}

\* sessionStore.get(id) of a store that returns: the record, or undefined
StoreHas(st, id) == id \in DOMAIN st
StoreGet(st, id) == IF id \in DOMAIN st THEN st[id] ELSE NoSession
\* a put that updates an existing record member by member and stops after
\* the name
StorePutMerge(st, rec) ==
    [k \in DOMAIN st \cup {rec.sessionId} |->
        IF k = rec.sessionId
        THEN IF k \in DOMAIN st THEN [st[k] EXCEPT !.name = rec.name] ELSE rec
        ELSE st[k]]

\* sessionStore.put(data): the record is kept under data.sessionId
StorePut(st, rec) ==
    [k \in DOMAIN st \cup {rec.sessionId} |->
        IF k = rec.sessionId THEN rec ELSE st[k]]
\* sessionStore.delete(id)
StoreDelete(st, id) == [k \in DOMAIN st \ {id} |-> st[k]]

\* the test applications' protected route GET /api/me behind the middleware
ProtectedRoute(session) ==
    IF ~session.signedIn THEN JsonError(401, "Not authenticated")
    ELSE JsonSession("me", session, <<>>)

----------------------------------------------------------------------------
(* TestmodeAuthImplementation.  Each operator is one handler, given the     *)
(* request context, the store and the outcome of the handler's store call.  *)

Finish(c, resp) ==
    [c EXCEPT !.pc = "done", !.resp = resp, !.calls = Append(@, "respond")]
Raise(c) == [c EXCEPT !.pc = "raised"]
Call(c, what) == [c EXCEPT !.calls = Append(@, what)]
Called(c, what) == \E i \in 1..Len(c.calls) : c.calls[i] = what
SetSession(c, s) ==
    [c EXCEPT !.sessionSet = TRUE, !.session = s, !.calls = Append(@, "set-session")]
\* await next(): the downstream handler answers from c.var.session
Next_(c) ==
    LET d == Call(c, "next") IN Finish(d, ProtectedRoute(d.session))

\* sessionMiddlewareImpl making up a signed-in default user when the store
\* has no record
TestmodeSessionMiddlewareAutoUser(c0, st, out) ==
    LET sessionId == TestmodeSessionId(c0.header)
        c == Call([c0 EXCEPT !.sid = sessionId], "get")
    IN IF out = "ok"
       THEN IF StoreHas(st, sessionId)
            THEN Next_(SetSession(c, StoreGet(st, sessionId)))
            ELSE Next_(SetSession(c, ValidSession(sessionId, "Test User",
                                                  "test@example.com", TestCredential)))
       ELSE Next_(SetSession(c, InvalidSession("Session store error")))

TestmodeSessionMiddlewareImpl(c0, st, out) ==
    LET sessionId == TestmodeSessionId(c0.header)
        c == Call([c0 EXCEPT !.sid = sessionId], "get")
    IN IF out = "ok"
       THEN IF StoreHas(st, sessionId)
            THEN Next_(SetSession(c, StoreGet(st, sessionId)))
            ELSE Next_(SetSession(c, InvalidSession("No test session")))
       ELSE Next_(SetSession(c, InvalidSession("Session store error")))

\* signinImpl with the get outside the try
TestmodeSigninImplNoCatch(c0, st, out) ==
    LET sessionId == SigninSessionId(c0.header)
        c == Call([c0 EXCEPT !.sid = sessionId], "get")
    IN IF out = "throws" THEN Raise(c)
       ELSE IF StoreHas(st, sessionId)
       THEN Finish(c, JsonSession("Already signed in", StoreGet(st, sessionId), <<>>))
       ELSE Finish(c, Html("testmode-form"))

TestmodeSigninImpl(c0, st, out) ==
    LET sessionId == SigninSessionId(c0.header)
        c == Call([c0 EXCEPT !.sid = sessionId], "get")
    IN IF out = "ok" /\ StoreHas(st, sessionId)
       THEN Finish(c, JsonSession("Already signed in", StoreGet(st, sessionId), <<>>))
       ELSE Finish(c, Html("testmode-form"))

\* testSigninImpl as it was before session scoping: always the default id
TestSigninSessionFixedId(b) ==
    ValidSession(TEST_SESSION_ID, b.name, b.email, TestCredential)

\* the record testSigninImpl builds from a body that passed validation
TestSigninSession(b) ==
    ValidSession(IF Truthy(b.sessionID) THEN b.sessionID ELSE TEST_SESSION_ID,
                 b.name, b.email, TestCredential)

\* testSigninImpl keeping the record an id already has
TestSigninImplKeepExisting(c, st, out) ==
    IF c.body.syntax = "malformed"
    THEN [ctx |-> Finish(c, JsonError(400, "Invalid JSON body")), store |-> st]
    ELSE IF c.body.syntax = "null"
    THEN [ctx |-> Raise(c), store |-> st]
    ELSE IF ~Truthy(c.body.email) \/ ~Truthy(c.body.name)
    THEN [ctx |-> Finish(c, JsonError(400, "email and name are required")), store |-> st]
    ELSE LET session == TestSigninSession(c.body)
             d == Call([c EXCEPT !.sid = session.sessionId], "put")
             cookies == IF Truthy(c.body.sessionID)
                        THEN <<SetCookie(ScopeCookieName, session.sessionId,
                                         FALSE, NoMaxAge, Undef)>>
                        ELSE <<>>
         IN IF out = "ok"
            THEN [ctx |-> Finish(d, JsonSession("success", session, cookies)),
                  store |-> IF StoreHas(st, session.sessionId) THEN st
                            ELSE StorePut(st, session)]
            ELSE [ctx |-> Finish(d, JsonError(500, "Failed to store session")),
                  store |-> st]

\* testSigninImpl deciding on the cookie by sessionId instead of
\* data.sessionID: the default id gets a scoping cookie too
TestSigninImplAlwaysCookie(c, st, out) ==
    IF c.body.syntax = "malformed"
    THEN [ctx |-> Finish(c, JsonError(400, "Invalid JSON body")), store |-> st]
    ELSE IF c.body.syntax = "null"
    THEN [ctx |-> Raise(c), store |-> st]
    ELSE IF ~Truthy(c.body.email) \/ ~Truthy(c.body.name)
    THEN [ctx |-> Finish(c, JsonError(400, "email and name are required")), store |-> st]
    ELSE LET session == TestSigninSession(c.body)
             d == Call([c EXCEPT !.sid = session.sessionId], "put")
         IN IF out = "ok"
            THEN [ctx |-> Finish(d, JsonSession("success", session,
                            <<SetCookie(ScopeCookieName, session.sessionId,
                                        FALSE, NoMaxAge, Undef)>>)),
                  store |-> StorePut(st, session)]
            ELSE [ctx |-> Finish(d, JsonError(500, "Failed to store session")),
                  store |-> st]

\* testSigninImpl setting the scoping cookie before the put, so that the
\* header is already on the response when the put throws
TestSigninImplCookieBeforePut(c, st, out) ==
    IF c.body.syntax = "malformed"
    THEN [ctx |-> Finish(c, JsonError(400, "Invalid JSON body")), store |-> st]
    ELSE IF c.body.syntax = "null"
    THEN [ctx |-> Raise(c), store |-> st]
    ELSE IF ~Truthy(c.body.email) \/ ~Truthy(c.body.name)
    THEN [ctx |-> Finish(c, JsonError(400, "email and name are required")), store |-> st]
    ELSE LET session == TestSigninSession(c.body)
             d == Call([c EXCEPT !.sid = session.sessionId], "put")
             cookies == IF Truthy(c.body.sessionID)
                        THEN <<SetCookie(ScopeCookieName, session.sessionId,
                                         FALSE, NoMaxAge, Undef)>>
                        ELSE <<>>
         IN IF out = "ok"
            THEN [ctx |-> Finish(d, JsonSession("success", session, cookies)),
                  store |-> StorePut(st, session)]
            ELSE [ctx |-> Finish(d, [JsonError(500, "Failed to store session")
                                        EXCEPT !.setCookie = cookies]),
                  store |-> st]

\* result: the context and the store after the handler
TestSigninImpl(c, st, out) ==
    IF c.body.syntax = "malformed"
    THEN [ctx |-> Finish(c, JsonError(400, "Invalid JSON body")), store |-> st]
    ELSE IF c.body.syntax = "null"
    THEN [ctx |-> Raise(c), store |-> st]     \* data.email of null: TypeError
    ELSE IF ~Truthy(c.body.email) \/ ~Truthy(c.body.name)
    THEN [ctx |-> Finish(c, JsonError(400, "email and name are required")), store |-> st]
    ELSE LET session == TestSigninSession(c.body)
             d == Call([c EXCEPT !.sid = session.sessionId], "put")
         IN IF out = "ok"
            THEN [ctx |-> Finish(d, JsonSession("success", session,
                            IF Truthy(c.body.sessionID)
                            THEN <<SetCookie(ScopeCookieName, session.sessionId,
                                             FALSE, NoMaxAge, Undef)>>
                            ELSE <<>>)),
                  store |-> StorePut(st, session)]
            ELSE [ctx |-> Finish(d, JsonError(500, "Failed to store session")),
                  store |-> st]

\* callbackImpl handing out a cookie for the default session
TestmodeCallbackSetsCookie(c) ==
    Finish(c, Redirect("/", <<SetCookie(ScopeCookieName, TEST_SESSION_ID,
                                        FALSE, NoMaxAge, Undef)>>))

TestmodeCallbackImpl(c) == Finish(c, Redirect("/", <<>>))

\* signoutImpl as it was before session scoping: deletes the default id
TestmodeSignoutDefaultOnly(c0, st, hasDelete, out) ==
    LET sessionId == SignoutSessionId(c0.header)
        c == [c0 EXCEPT !.sid = sessionId]
        clear == IF sessionId # TEST_SESSION_ID
                 THEN <<SetCookie(ScopeCookieName, "", FALSE, 0, Undef)>>
                 ELSE <<>>
    IN IF ~hasDelete
       THEN [ctx |-> Finish(c, Redirect("/", clear)), store |-> st]
       ELSE IF out = "ok"
       THEN [ctx |-> Finish(Call(c, "delete"), Redirect("/", clear)),
             store |-> StoreDelete(st, TEST_SESSION_ID)]
       ELSE [ctx |-> Finish(Call(c, "delete"), Redirect("/", <<>>)), store |-> st]

\* signoutImpl that only clears the cookie
TestmodeSignoutCookieOnly(c0, st, hasDelete, out) ==
    LET sessionId == SignoutSessionId(c0.header)
        c == [c0 EXCEPT !.sid = sessionId]
        clear == IF sessionId # TEST_SESSION_ID
                 THEN <<SetCookie(ScopeCookieName, "", FALSE, 0, Undef)>>
                 ELSE <<>>
    IN IF ~hasDelete
       THEN [ctx |-> Finish(c, Redirect("/", clear)), store |-> st]
       ELSE IF out = "ok"
       THEN [ctx |-> Finish(Call(c, "delete"), Redirect("/", clear)), store |-> st]
       ELSE [ctx |-> Finish(Call(c, "delete"), Redirect("/", <<>>)), store |-> st]

\* signoutImpl clearing the scoping cookie only when the store held a record
\* for the id: the answer then depends on what an earlier sign-out removed
TestmodeSignoutClearIfExisted(c0, st, hasDelete, out) ==
    LET sessionId == SignoutSessionId(c0.header)
        c == [c0 EXCEPT !.sid = sessionId]
        clear == IF sessionId # TEST_SESSION_ID /\ StoreHas(st, sessionId)
                 THEN <<SetCookie(ScopeCookieName, "", FALSE, 0, Undef)>>
                 ELSE <<>>
    IN IF ~hasDelete
       THEN [ctx |-> Finish(c, Redirect("/", clear)), store |-> st]
       ELSE IF out = "ok"
       THEN [ctx |-> Finish(Call(c, "delete"), Redirect("/", clear)),
             store |-> StoreDelete(st, sessionId)]
       ELSE [ctx |-> Finish(Call(c, "delete"), Redirect("/", <<>>)), store |-> st]

TestmodeSignoutImpl(c0, st, hasDelete, out) ==
    LET sessionId == SignoutSessionId(c0.header)
        c == [c0 EXCEPT !.sid = sessionId]
        clear == IF sessionId # TEST_SESSION_ID
                 THEN <<SetCookie(ScopeCookieName, "", FALSE, 0, Undef)>>
                 ELSE <<>>
    IN IF ~hasDelete
       THEN [ctx |-> Finish(c, Redirect("/", clear)), store |-> st]
       ELSE IF out = "ok"
       THEN [ctx |-> Finish(Call(c, "delete"), Redirect("/", clear)),
             store |-> StoreDelete(st, sessionId)]
       ELSE [ctx |-> Finish(Call(c, "delete"), Redirect("/", <<>>)), store |-> st]

----------------------------------------------------------------------------
(* LivemodeAuthImplementation *)

\* sessionMiddlewareImpl reporting a failed get as a missing session
LivemodeSessionMiddlewareMisreport(c0, st, out) ==
    LET sessionId == GetCookie(c0.header, CookieNameOf(c0.options))
        c == [c0 EXCEPT !.sid = sessionId]
    IN IF Truthy(sessionId)
       THEN IF out = "ok" /\ StoreHas(st, sessionId)
            THEN Next_(SetSession(Call(c, "get"), StoreGet(st, sessionId)))
            ELSE Next_(SetSession(Call(c, "get"), InvalidSession("Session not found")))
       ELSE Next_(SetSession(c, InvalidSession("No session cookie")))

\* sessionMiddlewareImpl as it was before the get was wrapped in a try
LivemodeSessionMiddlewareNoCatch(c0, st, out) ==
    LET sessionId == GetCookie(c0.header, CookieNameOf(c0.options))
        c == [c0 EXCEPT !.sid = sessionId]
    IN IF Truthy(sessionId)
       THEN IF out = "ok"
            THEN IF StoreHas(st, sessionId)
                 THEN Next_(SetSession(Call(c, "get"), StoreGet(st, sessionId)))
                 ELSE Next_(SetSession(Call(c, "get"), InvalidSession("Session not found")))
            ELSE Raise(Call(c, "get"))
       ELSE Next_(SetSession(c, InvalidSession("No session cookie")))

\* sessionMiddlewareImpl asking the store a second time when the first get
\* threw
LivemodeSessionMiddlewareRetry(c0, st, out) ==
    LET sessionId == GetCookie(c0.header, CookieNameOf(c0.options))
        c == [c0 EXCEPT !.sid = sessionId]
    IN IF Truthy(sessionId)
       THEN IF out = "ok"
            THEN IF StoreHas(st, sessionId)
                 THEN Next_(SetSession(Call(c, "get"), StoreGet(st, sessionId)))
                 ELSE Next_(SetSession(Call(c, "get"), InvalidSession("Session not found")))
            ELSE IF StoreHas(st, sessionId)
                 THEN Next_(SetSession(Call(Call(c, "get"), "get"), StoreGet(st, sessionId)))
                 ELSE Next_(SetSession(Call(Call(c, "get"), "get"),
                                       InvalidSession("Session not found")))
       ELSE Next_(SetSession(c, InvalidSession("No session cookie")))

LivemodeSessionMiddlewareImpl(c0, st, out) ==
    LET sessionId == GetCookie(c0.header, CookieNameOf(c0.options))
        c == [c0 EXCEPT !.sid = sessionId]
    IN IF Truthy(sessionId)
       THEN IF out = "ok"
            THEN IF StoreHas(st, sessionId)
                 THEN Next_(SetSession(Call(c, "get"), StoreGet(st, sessionId)))
                 ELSE Next_(SetSession(Call(c, "get"), InvalidSession("Session not found")))
            ELSE Next_(SetSession(Call(c, "get"), InvalidSession("Session store error")))
       ELSE Next_(SetSession(c, InvalidSession("No session cookie")))

\* the sign-in page: options.renderSignInPage, else <GoogleSignInButton/>
RenderSignInPage(opts) ==
    IF opts.renderSignInPage THEN Html("custom-page") ELSE Html("google-button")

LivemodeSigninImpl(c0, st, out) ==
    LET sessionId == GetCookie(c0.header, CookieNameOf(c0.options))
        c == [c0 EXCEPT !.sid = sessionId]
    IN IF Truthy(sessionId)
       THEN IF out = "throws"
            THEN Raise(Call(c, "get"))          \* the get is not in a try
            ELSE IF StoreHas(st, sessionId) /\ StoreGet(st, sessionId).signedIn
                 THEN Finish(Call(c, "get"), Redirect("/", <<>>))
                 ELSE Finish(Call(c, "get"), RenderSignInPage(c.options))
       ELSE Finish(c, RenderSignInPage(c.options))

\* what the token-info endpoint does with the credential
VerifierReplies ==
    {VerifierReply("non2xx", NoTokenInfo), VerifierReply("raises", NoTokenInfo),
     VerifierReply("ok", TokenInfo("Alice", "a@x")),
     VerifierReply("ok", NoTokenInfo)}

\* verifyCredential without the response.ok test
VerifyCredentialNoOkCheck(reply) ==
    IF reply.kind \in {"ok", "non2xx"} THEN [isNull |-> FALSE, info |-> reply.info]
    ELSE [isNull |-> TRUE, info |-> NoTokenInfo]

\* verifyCredential: the TokenInfo, or null
VerifyCredential(reply) ==
    IF reply.kind = "ok" THEN [isNull |-> FALSE, info |-> reply.info]
    ELSE [isNull |-> TRUE, info |-> NoTokenInfo]

\* callbackImpl telling a verifier that could not be reached from one that
\* rejected the credential
LivemodeCallbackVerifyDistinct(c0, reply) ==
    LET c == Call(c0, "verify")
        tokenInfo == VerifyCredential(reply)
    IN IF ~tokenInfo.isNull
       THEN [c EXCEPT !.pc = "verified", !.tokenInfo = tokenInfo.info]
       ELSE IF reply.kind = "raises"
       THEN Finish(c, JsonError(500, "Verification unavailable"))
       ELSE Finish(c, Text("Invalid Google Sign-In"))

\* callbackImpl up to and including the verifier call
LivemodeCallbackVerify(c0, reply) ==
    LET c == Call(c0, "verify")
        tokenInfo == VerifyCredential(reply)
    IN IF ~tokenInfo.isNull
       THEN [c EXCEPT !.pc = "verified", !.tokenInfo = tokenInfo.info]
       ELSE Finish(c, Text("Invalid Google Sign-In"))

\* callbackImpl setting the cookie before the session is stored, so that a
\* failing put leaves a cookie for a session that does not exist
LivemodeCallbackCookieFirst(c0, st, uuid, out) ==
    LET session == ValidSession(uuid, c0.tokenInfo.name, c0.tokenInfo.email,
                                c0.body.credential)
        c == Call(Call([c0 EXCEPT !.sid = uuid], "set-cookie"), "put")
        dom == IF Truthy(c.options.cookieDomain) THEN c.options.cookieDomain ELSE Undef
    IN IF out = "ok"
       THEN [ctx |-> Finish(c,
                        Redirect("/", <<SetCookie(CookieNameOf(c.options), session.sessionId,
                                       TRUE, SessionDurationOf(c.options), dom)>>)),
             store |-> StorePut(st, session)]
       ELSE [ctx |-> Raise(c), store |-> st]

\* callbackImpl from the construction of the session on
LivemodeCallbackPut(c0, st, uuid, out) ==
    LET session == ValidSession(uuid, c0.tokenInfo.name, c0.tokenInfo.email,
                                c0.body.credential)
        c == Call([c0 EXCEPT !.sid = uuid], "put")
        dom == IF Truthy(c.options.cookieDomain) THEN c.options.cookieDomain ELSE Undef
    IN IF out = "ok"
       THEN [ctx |-> Finish(Call(c, "set-cookie"),
                        Redirect("/", <<SetCookie(CookieNameOf(c.options), session.sessionId,
                                       TRUE, SessionDurationOf(c.options), dom)>>)),
             store |-> StorePut(st, session)]
       ELSE [ctx |-> Raise(c), store |-> st]    \* the put is not in a try

LivemodeSignoutImpl(c0) ==
    LET c == [c0 EXCEPT !.sid = GetCookie(c0.header, CookieNameOf(c0.options))]
        dom == IF Truthy(c.options.cookieDomain) THEN c.options.cookieDomain ELSE Undef
    IN Finish(Call(c, "set-cookie"),
              Redirect("/", <<SetCookie(CookieNameOf(c.options), "", TRUE, 0, dom)>>))

----------------------------------------------------------------------------
(* The requests of the model: the sets a specification draws the requests'  *)
(* options, Cookie headers, bodies and verifier answers from                *)

TestOptions == Options("testmode", Undef, Undef, NoMaxAge, FALSE)
LiveOptions == Options("livemode", Undef, Undef, NoMaxAge, FALSE)
CustomLiveOptions == Options("livemode", "test_session", "test.com", 3600, TRUE)
\* options whose mode is not set: optionsMiddleware takes the else branch
UnsetModeOptions == Options(Undef, Undef, Undef, NoMaxAge, FALSE)

ScopeHeader(v) == Header(<<Pair(ScopeCookieName, <<v>>)>>)
PrimaryHeader(v) == Header(<<Pair(DefaultCookieName, <<v>>)>>)
\* 'testmode-session-id=; some-other-cookie=value'
EmptyScopeHeader ==
    Header(<<Pair(ScopeCookieName, <<"">>), Pair("some-other-cookie", <<"value">>)>>)

ValidBodies(ids) ==
    {Body("object", "Alice", "a@x", sid, Undef) : sid \in ids}
    \cup {Body("object", "Bob", "b@x", sid, Undef) : sid \in ids}
InvalidBodies ==
    {Body("malformed", Undef, Undef, Undef, Undef),
     Body("null", Undef, Undef, Undef, Undef),
     Body("object", "Alice", Undef, Undef, Undef),
     Body("object", Undef, "a@x", "s1", Undef),
     Body("object", "", "a@x", Undef, Undef),
     Body("object", "Alice", "", "s1", Undef),
     Body("object", Undef, Undef, Undef, Undef)}
CallbackBody(cred) == Body("object", Undef, Undef, Undef, cred)

Inputs(opts, hs, bs, cbs, rs) ==
    [options |-> opts, headers |-> hs, bodies |-> bs, callbackBodies |-> cbs,
     replies |-> rs]

\* Simulated mode only
SimInputs ==
    Inputs({TestOptions},
           {NoHeader, ScopeHeader("s1"), ScopeHeader("s2"), EmptyScopeHeader,
            PrimaryHeader("uuid-1")},
           ValidBodies({Undef, "s1"})
             \cup {Body("object", "Alice", "a@x", "", Undef),
                   Body("object", "Alice", "a@x", "s2", Undef)}
             \cup InvalidBodies,
           {CallbackBody("cred-1")},
           {VerifierReply("ok", TokenInfo("Alice", "a@x"))})

\* Live mode only
LiveInputs ==
    Inputs({LiveOptions, CustomLiveOptions, UnsetModeOptions},
           {NoHeader, PrimaryHeader("uuid-1"), PrimaryHeader("uuid-2"),
            PrimaryHeader(""), PrimaryHeader("invalid-session-id"),
            Header(<<Pair("test_session", <<"uuid-1">>)>>)},
           {Body("object", "Alice", "a@x", Undef, Undef),
            Body("malformed", Undef, Undef, Undef, Undef)},
           {CallbackBody("cred-1"), CallbackBody(Undef)},
           VerifierReplies)

\* Cookie headers of up to MaxPairs cookies: the scoping cookie with an
\* empty value, with a value, with a value holding '=', without '=', more
\* than once, and next to another cookie
CookiePairs ==
    {Pair(ScopeCookieName, <<"">>), Pair(ScopeCookieName, <<"s1">>),
     Pair(ScopeCookieName, <<"a", "b">>), Pair(ScopeCookieName, <<>>),
     Pair("some-other-cookie", <<"value">>), Pair(DefaultCookieName, <<"s1">>)}
CookieHeaders ==
    {NoHeader} \cup
    UNION {{Header(ps) : ps \in [1..k -> CookiePairs]} : k \in 0..MaxPairs}

\* Simulated mode, for a client whose Cookie header is h
CookieInputs(h) ==
    Inputs({TestOptions}, {h},
           {Body("object", "Alice", "a@x", sid, Undef) : sid \in {"s1", "a=b"}},
           {CallbackBody("cred-1"), CallbackBody(Undef), NoBody,
            Body("malformed", Undef, Undef, Undef, Undef)},
           {})

\* both modes
CoreInputs ==
    Inputs({TestOptions, LiveOptions},
           {NoHeader, ScopeHeader("s1"), PrimaryHeader("uuid-1"), PrimaryHeader("s1")},
           {Body("object", "Alice", "a@x", Undef, Undef),
            Body("object", "Alice", "a@x", "s1", Undef),
            Body("object", "Bob", "b@x", "s1", Undef),
            Body("malformed", Undef, Undef, Undef, Undef),
            Body("null", Undef, Undef, Undef, Undef)},
           {CallbackBody("cred-1")},
           VerifierReplies)

----------------------------------------------------------------------------
(* honoSimpleGoogleAuth: the routes and the session middleware, each after  *)
(* optionsMiddleware has resolved the request's options and strategy        *)

RouteSession(c, st, out) ==
    IF IsTestmode(c) THEN TestmodeSessionMiddlewareImpl(c, st, out)
    ELSE LivemodeSessionMiddlewareImpl(c, st, out)

RouteSignin(c, st, out) ==
    IF IsTestmode(c) THEN TestmodeSigninImpl(c, st, out)
    ELSE LivemodeSigninImpl(c, st, out)

\* the Live strategy has no testSigninImpl
\* POST /test/signin without the test for the strategy's testSigninImpl
RouteTestSigninAlways(c, st, out) == TestSigninImpl(c, st, out)

RouteTestSignin(c, st, out) ==
    IF ~IsTestmode(c)
    THEN [ctx |-> Finish(c, JsonError(400, "Testmode not enabled")), store |-> st]
    ELSE TestSigninImpl(c, st, out)

RouteSignout(c, st, hasDelete, out) ==
    IF IsTestmode(c) THEN TestmodeSignoutImpl(c, st, hasDelete, out)
    ELSE [ctx |-> LivemodeSignoutImpl(c), store |-> st]

\* the context of a finished step, with the outcome of its store call
StoreCalled(c) == Called(c, "get") \/ Called(c, "put") \/ Called(c, "delete")
Record(c, out) == [c EXCEPT !.out = IF StoreCalled(c) THEN out ELSE "none"]

\* the store key the caller of POST /test/signin asked for
RequestedId(b) == IF Truthy(b.sessionID) THEN b.sessionID ELSE TEST_SESSION_ID

Remove(f, k) == [x \in DOMAIN f \ {k} |-> f[x]]
Assign(f, k, v) == [x \in DOMAIN f \cup {k} |-> IF x = k THEN v ELSE f[x]]

Init ==
    /\ store = <<>>
    /\ storeHasDelete \in BOOLEAN
    /\ req = [r \in {"r1"} |-> IdleCtx]
    /\ freshUsed = 0
    /\ activeSignin = <<>>
    /\ signedOut = {}
    /\ storeB = <<>>
    /\ kv = <<>>

\* a request through the session middleware to a protected route
SessionRequest(r, I) ==
    \E opts \in I.options, h \in I.headers, out \in Outcomes :
        /\ Free(r)
        /\ req' = [req EXCEPT ![r] = Record(
                RouteSession(OptionsMiddleware(NewCtx("session", opts, h, NoBody)),
                             store, out), out)]
        /\ UNCHANGED <<store, storeHasDelete, freshUsed, activeSignin, signedOut, storeB, kv>>

\* GET /signin
SigninRequest(r, I) ==
    \E opts \in I.options, h \in I.headers, out \in Outcomes :
        /\ Free(r)
        /\ req' = [req EXCEPT ![r] = Record(
                RouteSignin(OptionsMiddleware(NewCtx("signin", opts, h, NoBody)),
                            store, out), out)]
        /\ UNCHANGED <<store, storeHasDelete, freshUsed, activeSignin, signedOut, storeB, kv>>

\* POST /test/signin
TestSigninStep(r, opts, h, b, out) ==
        LET res == RouteTestSignin(OptionsMiddleware(NewCtx("testSignin", opts, h, b)),
                                   store, out)
            c == Record(res.ctx, out)
        IN /\ Free(r)
           /\ req' = [req EXCEPT ![r] = c]
           /\ store' = res.store
           /\ IF Called(c, "put")
              THEN IF c.resp.status = 200
                   THEN /\ activeSignin' = Assign(activeSignin, RequestedId(b),
                                                  <<b.name, b.email>>)
                        /\ signedOut' = signedOut \ {RequestedId(b)}
                   ELSE /\ activeSignin' = Remove(activeSignin, RequestedId(b))
                        /\ signedOut' = signedOut
              ELSE UNCHANGED <<activeSignin, signedOut>>
           /\ UNCHANGED <<storeHasDelete, freshUsed, storeB, kv>>

\* POST /test/signin from a client that sends no cookies
TestSigninRequest(r, I) ==
    \E opts \in I.options, b \in I.bodies, out \in Outcomes :
        TestSigninStep(r, opts, NoHeader, b, out)

\* POST /test/signin from a client that sends its cookies along
ClientTestSigninRequest(r, I) ==
    \E opts \in I.options, h \in I.headers, b \in I.bodies, out \in Outcomes :
        TestSigninStep(r, opts, h, b, out)

\* a request to a route of the application when the auth routes are mounted
\* at "/" and the session middleware is registered after them: the router's
\* use("*", optionsMiddleware) runs first, then sessionMiddleware, which
\* runs optionsMiddleware again
SessionBehindRoutesRequest(r, I) ==
    \E opts \in I.options, h \in I.headers, out \in Outcomes :
        /\ Free(r)
        /\ req' = [req EXCEPT ![r] = Record(
                RouteSession(OptionsMiddleware(OptionsMiddleware(
                                 NewCtx("session", opts, h, NoBody))),
                             store, out), out)]
        /\ UNCHANGED <<store, storeHasDelete, freshUsed, activeSignin, signedOut, storeB, kv>>

\* POST /callback: all of it in testmode, up to the verifier's answer in
\* livemode
CallbackRequest(r, I) ==
    \E opts \in I.options, b \in I.callbackBodies, reply \in I.replies :
        LET c == OptionsMiddleware(NewCtx("callback", opts, NoHeader, b))
        IN /\ Free(r)
           /\ reply.kind = "ok" /\ ~IsTestmode(c) => freshUsed < MaxFresh
           /\ req' = [req EXCEPT ![r] =
                   IF IsTestmode(c) THEN TestmodeCallbackImpl(c)
                   ELSE [LivemodeCallbackVerify(c, reply) EXCEPT !.reply = reply]]
           /\ UNCHANGED <<store, storeHasDelete, freshUsed, activeSignin, signedOut, storeB, kv>>

\* POST /callback in livemode, after the verifier accepted the credential
CallbackPut(r) ==
    \E out \in Outcomes :
        LET res == LivemodeCallbackPut(req[r], store, Uuid(freshUsed + 1), out)
        IN /\ req[r].pc = "verified"
           /\ req' = [req EXCEPT ![r] = Record(res.ctx, out)]
           /\ store' = res.store
           /\ freshUsed' = freshUsed + 1
           /\ UNCHANGED <<storeHasDelete, activeSignin, signedOut, storeB, kv>>

\* GET /signout
SignoutRequest(r, I) ==
    \E opts \in I.options, h \in I.headers, out \in Outcomes :
        LET res == RouteSignout(OptionsMiddleware(NewCtx("signout", opts, h, NoBody)),
                                store, storeHasDelete, out)
            c == Record(res.ctx, out)
        IN /\ Free(r)
           /\ req' = [req EXCEPT ![r] = c]
           /\ store' = res.store
           /\ IF IsTestmode(c)
              THEN /\ activeSignin' = Remove(activeSignin, c.sid)
                   /\ signedOut' = IF storeHasDelete /\ out = "ok"
                                   THEN signedOut \cup {c.sid} ELSE signedOut
              ELSE UNCHANGED <<activeSignin, signedOut>>
           /\ UNCHANGED <<storeHasDelete, freshUsed, storeB, kv>>

\* both strategies
Next ==
    \/ \E r \in Slots : SessionRequest(r, CoreInputs)
    \/ \E r \in Slots : SigninRequest(r, CoreInputs)
    \/ \E r \in Slots : TestSigninRequest(r, CoreInputs)
    \/ \E r \in Slots : CallbackRequest(r, CoreInputs)
    \/ \E r \in Slots : CallbackPut(r)
    \/ \E r \in Slots : SignoutRequest(r, CoreInputs)

Spec == Init /\ [][Next]_vars

\* every request in Simulated mode
NextSim ==
    \/ \E r \in Slots : SessionRequest(r, SimInputs)
    \/ \E r \in Slots : SigninRequest(r, SimInputs)
    \/ \E r \in Slots : TestSigninRequest(r, SimInputs)
    \/ \E r \in Slots : CallbackRequest(r, SimInputs)
    \/ \E r \in Slots : SignoutRequest(r, SimInputs)

SpecSim == Init /\ [][NextSim]_vars

\* every request in Live mode
NextLive ==
    \/ \E r \in Slots : SessionRequest(r, LiveInputs)
    \/ \E r \in Slots : SessionBehindRoutesRequest(r, LiveInputs)
    \/ \E r \in Slots : SigninRequest(r, LiveInputs)
    \/ \E r \in Slots : TestSigninRequest(r, LiveInputs)
    \/ \E r \in Slots : CallbackRequest(r, LiveInputs)
    \/ \E r \in Slots : CallbackPut(r)
    \/ \E r \in Slots : SignoutRequest(r, LiveInputs)

SpecLive == Init /\ [][NextLive]_vars

\* the client takes over the scoping cookie of the sign-in response it got
ClientAdoptsCookie(r) ==
    /\ req[r].pc = "done"
    /\ req[r].route = "testSignin"
    /\ req[r].resp.setCookie # <<>>
    /\ req' = [req EXCEPT ![r] =
                  [IdleCtx EXCEPT !.header = EchoHeader(req[r].resp.setCookie[1])]]
    /\ UNCHANGED <<store, storeHasDelete, freshUsed, activeSignin, signedOut, storeB, kv>>

\* POST /callback in testmode, with the client's cookies and any body
TestmodeCallbackRequest(r, I) ==
    \E opts \in I.options, h \in I.headers, b \in I.callbackBodies :
        LET c == OptionsMiddleware(NewCtx("callback", opts, h, b))
        IN /\ Free(r)
           /\ IsTestmode(c)
           /\ req' = [req EXCEPT ![r] = TestmodeCallbackImpl(c)]
           /\ UNCHANGED <<store, storeHasDelete, freshUsed, activeSignin, signedOut, storeB, kv>>

\* Simulated mode, one client that keeps sending the Cookie header it has
InitCookie ==
    /\ store = <<>>
    /\ storeHasDelete \in BOOLEAN
    /\ req \in {[r \in {"r1"} |-> [IdleCtx EXCEPT !.header = h]] : h \in CookieHeaders}
    /\ freshUsed = 0
    /\ activeSignin = <<>>
    /\ signedOut = {}
    /\ storeB = <<>>
    /\ kv = <<>>

NextCookie ==
    \/ \E r \in Slots : SessionRequest(r, CookieInputs(req[r].header))
    \/ \E r \in Slots : SigninRequest(r, CookieInputs(req[r].header))
    \/ \E r \in Slots : SignoutRequest(r, CookieInputs(req[r].header))
    \/ \E r \in Slots : ClientTestSigninRequest(r, CookieInputs(req[r].header))
    \/ \E r \in Slots : TestmodeCallbackRequest(r, CookieInputs(req[r].header))
    \/ \E r \in Slots : ClientAdoptsCookie(r)

SpecCookie == InitCookie /\ [][NextCookie]_vars

----------------------------------------------------------------------------
(* Two requests to POST /test/signin in flight at once.  testSigninImpl     *)
(* gives up control at `await c.req.json()` and at `await                   *)
(* sessionStore.put(session)`; between these it runs without interruption.  *)

RaceInputs ==
    Inputs({TestOptions}, {NoHeader},
           ValidBodies({Undef, "s1"}) \cup {Body("malformed", Undef, Undef, Undef, Undef)},
           {}, {})

\* up to the call of put: the body is read and checked, the record is built
RaceParse(r, I) ==
    \E opts \in I.options, b \in I.bodies :
        LET c == OptionsMiddleware(NewCtx("testSignin", opts, NoHeader, b))
            res == RouteTestSignin(c, store, "ok")
        IN /\ Free(r)
           /\ req' = [req EXCEPT ![r] =
                   IF Called(res.ctx, "put")
                   THEN [c EXCEPT !.pc = "parsed", !.sid = res.ctx.sid]
                   ELSE res.ctx]
           /\ UNCHANGED <<store, storeHasDelete, freshUsed, activeSignin, signedOut,
                          storeB, kv>>

\* the put is applied to the store, or throws
RaceStore(r) ==
    \E out \in Outcomes :
        LET res == RouteTestSignin([req[r] EXCEPT !.pc = "idle"], store, out)
        IN /\ req[r].pc = "parsed"
           /\ req' = [req EXCEPT ![r] = [Record(res.ctx, out) EXCEPT !.pc = "stored"]]
           /\ store' = res.store
           /\ UNCHANGED <<storeHasDelete, freshUsed, activeSignin, signedOut, storeB, kv>>

\* the handler resumes after the put and answers
RaceRespond(r) ==
    /\ req[r].pc = "stored"
    /\ req' = [req EXCEPT ![r].pc = "done"]
    /\ UNCHANGED <<store, storeHasDelete, freshUsed, activeSignin, signedOut, storeB, kv>>

InitRace ==
    /\ store = <<>>
    /\ storeHasDelete \in BOOLEAN
    /\ req = [r \in {"r1", "r2"} |-> IdleCtx]
    /\ freshUsed = 0
    /\ activeSignin = <<>>
    /\ signedOut = {}
    /\ storeB = <<>>
    /\ kv = <<>>

NextRace ==
    \/ \E r \in Slots : RaceParse(r, RaceInputs)
    \/ \E r \in Slots : RaceStore(r)
    \/ \E r \in Slots : RaceRespond(r)

SpecRace == InitRace /\ [][NextRace]_vars

----------------------------------------------------------------------------
(* Two applications, each with its own honoSimpleGoogleAuth instance whose  *)
(* provider hands out the application's own session store                   *)

Apps == {"app1", "app2"}

\* a provider handing out one module-wide store whatever the application
SessionStoreShared(app, a, b) == a

\* options.sessionStore as the provider of the application returns it
SessionStoreOf(app, a, b) == IF app = "app1" THEN a ELSE b

TwoInputs ==
    Inputs({TestOptions}, {NoHeader, ScopeHeader("s1")},
           {Body("object", "Alice", "a@x", Undef, Undef),
            Body("object", "Alice", "a@x", "s1", Undef),
            Body("object", "Bob", "b@x", Undef, Undef)},
           {}, {})

AppSessionRequest(r, I) ==
    \E app \in Apps, opts \in I.options, h \in I.headers, out \in Outcomes :
        /\ Free(r)
        /\ req' = [req EXCEPT ![r] =
                [Record(RouteSession(OptionsMiddleware(NewCtx("session", opts, h, NoBody)),
                                     SessionStoreOf(app, store, storeB), out), out)
                    EXCEPT !.app = app]]
        /\ UNCHANGED <<store, storeHasDelete, freshUsed, activeSignin, signedOut, storeB, kv>>

AppTestSigninRequest(r, I) ==
    \E app \in Apps, opts \in I.options, b \in I.bodies, out \in Outcomes :
        LET res == RouteTestSignin(OptionsMiddleware(NewCtx("testSignin", opts, NoHeader, b)),
                                   SessionStoreOf(app, store, storeB), out)
        IN /\ Free(r)
           /\ req' = [req EXCEPT ![r] = [Record(res.ctx, out) EXCEPT !.app = app]]
           /\ store' = IF app = "app1" THEN res.store ELSE store
           /\ storeB' = IF app = "app2" THEN res.store ELSE storeB
           /\ UNCHANGED <<storeHasDelete, freshUsed, activeSignin, signedOut, kv>>

AppSignoutRequest(r, I) ==
    \E app \in Apps, opts \in I.options, h \in I.headers, out \in Outcomes :
        LET res == RouteSignout(OptionsMiddleware(NewCtx("signout", opts, h, NoBody)),
                                SessionStoreOf(app, store, storeB), storeHasDelete, out)
        IN /\ Free(r)
           /\ req' = [req EXCEPT ![r] = [Record(res.ctx, out) EXCEPT !.app = app]]
           /\ store' = IF app = "app1" THEN res.store ELSE store
           /\ storeB' = IF app = "app2" THEN res.store ELSE storeB
           /\ UNCHANGED <<storeHasDelete, freshUsed, activeSignin, signedOut, kv>>

NextTwo ==
    \/ \E r \in Slots : AppSessionRequest(r, TwoInputs)
    \/ \E r \in Slots : AppTestSigninRequest(r, TwoInputs)
    \/ \E r \in Slots : AppSignoutRequest(r, TwoInputs)

SpecTwo == Init /\ [][NextTwo]_vars

----------------------------------------------------------------------------
(* createKVSessionStore: the session store kept in a KVNamespace.  A JSON   *)
(* text is the list of its object's members, each a key with the type and   *)
(* the text of its value.                                                   *)

Member(k, t, v) == [key |-> k, type |-> t, text |-> v]

\* JSON.stringify(data): a member whose value is undefined is left out
JsonStringify(data) ==
    SelectSeq(<<Member("signedIn", "literal", IF data.signedIn THEN "true" ELSE "false"),
                Member("sessionId", "string", data.sessionId),
                Member("name", "string", data.name),
                Member("email", "string", data.email),
                Member("credential", "string", data.credential),
                Member("error", "string", data.error)>>,
              LAMBDA m : m.text # Undef)

\* JSON.parse(value): reading a member the text does not have gives undefined
JsonParse(text) ==
    LET has(k) == \E i \in 1..Len(text) : text[i].key = k
        at(k) == text[CHOOSE i \in 1..Len(text) : text[i].key = k]
        str(k) == IF has(k) THEN at(k).text ELSE Undef
    IN [signedIn |-> has("signedIn") /\ at("signedIn").text = "true",
        sessionId |-> str("sessionId"), name |-> str("name"),
        email |-> str("email"), credential |-> str("credential"),
        error |-> str("error")]

\* get: the parsed record, or undefined
KVStoreGet(ns, sessionId) ==
    IF sessionId \in DOMAIN ns /\ ns[sessionId] # <<>>
    THEN [found |-> TRUE, data |-> JsonParse(ns[sessionId])]
    ELSE [found |-> FALSE, data |-> NoSession]

\* put filing the text under the credential instead of the session id
KVStorePutByCredential(ns, data) == Assign(ns, data.credential, JsonStringify(data))

KVStorePut(ns, data) == Assign(ns, data.sessionId, JsonStringify(data))
KVStoreDelete(ns, sessionId) == Remove(ns, sessionId)

\* the records and keys the store is called with
KVRecords ==
    {ValidSession(id, n, "a@x", cred) :
        id \in {"s1", "uuid-1"}, n \in {"Alice", Undef},
        cred \in {"cred-1", TestCredential}}
KVKeys == {"s1", "uuid-1", "other-id"}

\* the context of one call to the store
KVCall(op, key, data, found, out) ==
    [IdleCtx EXCEPT !.route = op, !.sid = key, !.session = data,
                    !.sessionSet = found, !.out = out, !.calls = <<op>>,
                    !.pc = IF out = "ok" THEN "done" ELSE "raised"]

\* in this specification activeSignin is the record last put under each key
\* and not deleted since
KVPut(r) ==
    \E data \in KVRecords, out \in Outcomes :
        /\ Free(r)
        /\ req' = [req EXCEPT ![r] = KVCall("kvPut", data.sessionId, data, FALSE, out)]
        /\ kv' = IF out = "ok" THEN KVStorePut(kv, data) ELSE kv
        /\ activeSignin' = IF out = "ok" THEN Assign(activeSignin, data.sessionId, data)
                           ELSE activeSignin
        /\ UNCHANGED <<store, storeHasDelete, freshUsed, signedOut, storeB>>

KVGet(r) ==
    \E key \in KVKeys, out \in Outcomes :
        LET got == KVStoreGet(kv, key)
        IN /\ Free(r)
           /\ req' = [req EXCEPT ![r] =
                   IF out = "ok" THEN KVCall("kvGet", key, got.data, got.found, out)
                   ELSE KVCall("kvGet", key, NoSession, FALSE, out)]
           /\ UNCHANGED <<store, storeHasDelete, freshUsed, activeSignin, signedOut,
                          storeB, kv>>

KVDelete(r) ==
    \E key \in KVKeys, out \in Outcomes :
        /\ Free(r)
        /\ req' = [req EXCEPT ![r] = KVCall("kvDelete", key, NoSession, FALSE, out)]
        /\ kv' = IF out = "ok" THEN KVStoreDelete(kv, key) ELSE kv
        /\ activeSignin' = IF out = "ok" THEN Remove(activeSignin, key) ELSE activeSignin
        /\ UNCHANGED <<store, storeHasDelete, freshUsed, signedOut, storeB>>

NextKV ==
    \/ \E r \in Slots : KVPut(r)
    \/ \E r \in Slots : KVGet(r)
    \/ \E r \in Slots : KVDelete(r)

SpecKV == Init /\ [][NextKV]_vars

----------------------------------------------------------------------------
(* POST /callback of an application registered with the identity provider  *)
(* under options.clientId, for the durations a host can configure and for   *)
(* identity claims issued to this application or to another one             *)

ThisClientId == "client-1"
OtherClientId == "client-2"

\* options of a Live application: its clientId and its sessionDurationSeconds
\* (NoMaxAge: the host leaves the duration out)
ClientOptions(cid, dur) ==
    [mode |-> "livemode", cookieName |-> Undef, cookieDomain |-> Undef,
     sessionDurationSeconds |-> dur, renderSignInPage |-> FALSE,
     clientId |-> cid]

\* the durations a host may configure, and none
Durations == {NoMaxAge, 0, 1, 3600, DefaultSessionDuration}

\* TokenInfo with the audience the identity claim was issued for
IdentityClaim(n, e, aud) == [name |-> n, email |-> e, aud |-> aud]

CallbackInputs ==
    Inputs({ClientOptions(ThisClientId, d) : d \in Durations},
           {NoHeader, PrimaryHeader("uuid-1")},
           {},
           {CallbackBody("cred-1")},
           {VerifierReply("non2xx", NoTokenInfo)}
             \cup {VerifierReply("ok", IdentityClaim("Alice", "a@x", aud)) :
                       aud \in {ThisClientId, OtherClientId}})

NextCallback ==
    \/ \E r \in Slots : CallbackRequest(r, CallbackInputs)
    \/ \E r \in Slots : CallbackPut(r)
    \/ \E r \in Slots : SessionRequest(r, CallbackInputs)

SpecCallback == Init /\ [][NextCallback]_vars

----------------------------------------------------------------------------
(* Simulated mode, a client that keeps its cookies from one request to the *)
(* next and applies every Set-Cookie it is sent, next to other callers that *)
(* sign in without cookies                                                  *)

\* the cookies the client holds once it has applied a Set-Cookie to the
\* cookies it held: Max-Age=0 removes the cookie of that name, any other
\* Set-Cookie replaces it or adds it
ApplySetCookie(pairs, cookie) ==
    LET rest == SelectSeq(pairs, LAMBDA p : p.name # cookie.name)
    IN IF cookie.maxAge = 0 THEN rest
       ELSE Append(rest, Pair(cookie.name, SegmentsOf(cookie.value)))

RECURSIVE ApplySetCookies(_, _)
ApplySetCookies(pairs, cookies) ==
    IF cookies = <<>> THEN pairs
    ELSE ApplySetCookies(ApplySetCookie(pairs, Head(cookies)), Tail(cookies))

\* the Cookie header of the client's next request after the request c: the
\* cookies it sent, updated by the response's Set-Cookie headers (no Cookie
\* header when it holds no cookie)
CookieJarAfter(c) ==
    LET pairs == ApplySetCookies(c.header.pairs, c.resp.setCookie)
    IN IF pairs = <<>> THEN NoHeader ELSE Header(pairs)

\* the client's requests, sent with the Cookie header h
ClientInputs(h) ==
    Inputs({TestOptions}, {h},
           {Body("object", "Alice", "a@x", Undef, Undef),
            Body("object", "Alice", "a@x", "s1", Undef)},
           {}, {})

\* the other callers' sign-ins
OtherInputs ==
    Inputs({TestOptions}, {NoHeader},
           {Body("object", "Bob", "b@x", Undef, Undef),
            Body("object", "Bob", "b@x", "s2", Undef)},
           {}, {})

\* the client starts without cookies or with a scoping cookie for "s2"
InitClient ==
    /\ store = <<>>
    /\ storeHasDelete \in BOOLEAN
    /\ req \in {[r \in {"r1", "r2"} |->
                    IF r = "r1" THEN [IdleCtx EXCEPT !.header = h] ELSE IdleCtx] :
                h \in {NoHeader, ScopeHeader("s2")}}
    /\ freshUsed = 0
    /\ activeSignin = <<>>
    /\ signedOut = {}
    /\ storeB = <<>>
    /\ kv = <<>>

NextClient ==
    \/ SessionRequest("r1", ClientInputs(CookieJarAfter(req["r1"])))
    \/ ClientTestSigninRequest("r1", ClientInputs(CookieJarAfter(req["r1"])))
    \/ SignoutRequest("r1", ClientInputs(CookieJarAfter(req["r1"])))
    \/ TestSigninRequest("r2", OtherInputs)

SpecClient == InitClient /\ [][NextClient]_vars

----------------------------------------------------------------------------
(* Requests in flight at once.  A handler runs without interruption up to  *)
(* its `await sessionStore.get/put/delete(...)`, the store performs the     *)
(* call atomically at some later moment, and the handler resumes after      *)
(* that with the call's result.  Other requests take their steps in between. *)

NoCall == [op |-> "none", key |-> Undef, data |-> NoSession]
StoreCall(op, key, data) == [op |-> op, key |-> key, data |-> data]

\* the store call a handler makes for the request c, which it works out
\* from the request alone
PendingCall(c, hasDelete) ==
    IF c.route \in {"session", "signin"}
    THEN IF IsTestmode(c)
         THEN StoreCall("get",
                        IF c.route = "session" THEN TestmodeSessionId(c.header)
                        ELSE SigninSessionId(c.header),
                        NoSession)
         ELSE LET sessionId == GetCookie(c.header, CookieNameOf(c.options))
              IN IF Truthy(sessionId) THEN StoreCall("get", sessionId, NoSession)
                 ELSE NoCall
    ELSE IF c.route = "testSignin"
    THEN IF /\ IsTestmode(c)
            /\ c.body.syntax = "object"
            /\ Truthy(c.body.email) /\ Truthy(c.body.name)
         THEN StoreCall("put", TestSigninSession(c.body).sessionId,
                        TestSigninSession(c.body))
         ELSE NoCall
    ELSE IF c.route = "signout"
    THEN IF IsTestmode(c) /\ hasDelete
         THEN StoreCall("delete", SignoutSessionId(c.header), NoSession)
         ELSE NoCall
    ELSE NoCall

\* a whole handler run on the store st without interruption
Handle(c, st, hasDelete, out) ==
    IF c.route = "session" THEN [ctx |-> RouteSession(c, st, out), store |-> st]
    ELSE IF c.route = "signin" THEN [ctx |-> RouteSignin(c, st, out), store |-> st]
    ELSE IF c.route = "testSignin" THEN RouteTestSignin(c, st, out)
    ELSE RouteSignout(c, st, hasDelete, out)

\* what the handler's local `session` / `currentSession` holds after its get
LocalStore(c) ==
    IF c.session = NoSession THEN <<>> ELSE [k \in {c.sid} |-> c.session]

\* the request as it arrived
Arrived(c) ==
    OptionsMiddleware(NewCtx(c.route, c.options, c.header, c.body))

\* testSigninImpl refusing an id that is already signed in: it looks the id
\* up when the request arrives and puts the record later
ConcurrentStepCheckFirst(c, st, hasDelete, out) ==
    LET call == PendingCall(c, hasDelete)
    IN IF c.pc = "idle"
       THEN IF c.route = "testSignin" /\ call.op = "put" /\ StoreHas(st, call.key)
            THEN [ctx |-> Finish(c, JsonError(409, "Already signed in")), store |-> st]
            ELSE IF call.op = "none"
            THEN [ctx |-> Handle(c, <<>>, hasDelete, "none").ctx, store |-> st]
            ELSE [ctx |-> [c EXCEPT !.pc = "pending", !.sid = call.key], store |-> st]
       ELSE IF c.pc = "pending"
       THEN [ctx |-> [c EXCEPT !.pc = "resumed", !.out = out,
                               !.session = IF call.op = "get" /\ out = "ok"
                                           THEN StoreGet(st, call.key)
                                           ELSE NoSession],
             store |-> IF out # "ok" THEN st
                       ELSE IF call.op = "put" THEN StorePut(st, call.data)
                       ELSE IF call.op = "delete" THEN StoreDelete(st, call.key)
                       ELSE st]
       ELSE [ctx |-> Record(Handle(Arrived(c), LocalStore(c), hasDelete, c.out).ctx,
                            c.out),
             store |-> st]

\* one uninterrupted stretch of a handler: from the arrival of the request
\* to its store call (or to the response when it makes none), the store
\* call itself, and from the call's return to the response
ConcurrentStep(c, st, hasDelete, out) ==
    LET call == PendingCall(c, hasDelete)
    IN IF c.pc = "idle"
       THEN IF call.op = "none"
            THEN [ctx |-> Handle(c, <<>>, hasDelete, "none").ctx, store |-> st]
            ELSE [ctx |-> [c EXCEPT !.pc = "pending", !.sid = call.key], store |-> st]
       ELSE IF c.pc = "pending"
       THEN [ctx |-> [c EXCEPT !.pc = "resumed", !.out = out,
                               !.session = IF call.op = "get" /\ out = "ok"
                                           THEN StoreGet(st, call.key)
                                           ELSE NoSession],
             store |-> IF out # "ok" THEN st
                       ELSE IF call.op = "put" THEN StorePut(st, call.data)
                       ELSE IF call.op = "delete" THEN StoreDelete(st, call.key)
                       ELSE st]
       ELSE [ctx |-> Record(Handle(Arrived(c), LocalStore(c), hasDelete, c.out).ctx,
                            c.out),
             store |-> st]

ConcurrentRoutes == {"session", "signin", "testSignin", "signout"}

ConcurrentInputs ==
    Inputs({TestOptions, LiveOptions},
           {NoHeader, ScopeHeader("s1"), PrimaryHeader("uuid-1")},
           {Body("object", "Alice", "a@x", Undef, Undef),
            Body("object", "Bob", "b@x", Undef, Undef),
            Body("object", "Alice", "a@x", "s1", Undef)},
           {CallbackBody("cred-1")},
           {VerifierReply("ok", TokenInfo("Alice", "a@x")),
            VerifierReply("non2xx", NoTokenInfo)})

\* a request arrives; each slot carries one request
ConcurrentBegin(r, I) ==
    \E route \in ConcurrentRoutes, opts \in I.options, h \in I.headers,
       b \in I.bodies :
        LET c == OptionsMiddleware(NewCtx(route, opts,
                     IF route = "testSignin" THEN NoHeader ELSE h,
                     IF route = "testSignin" THEN b ELSE NoBody))
            res == ConcurrentStep(c, store, storeHasDelete, "none")
        IN /\ req[r].pc = "idle"
           /\ req' = [req EXCEPT ![r] = res.ctx]
           /\ store' = res.store
           /\ UNCHANGED <<storeHasDelete, freshUsed, activeSignin, signedOut, storeB, kv>>

\* the store performs the call of a waiting handler
ConcurrentStoreCall(r) ==
    \E out \in Outcomes :
        LET res == ConcurrentStep(req[r], store, storeHasDelete, out)
        IN /\ req[r].pc = "pending"
           /\ req' = [req EXCEPT ![r] = res.ctx]
           /\ store' = res.store
           /\ UNCHANGED <<storeHasDelete, freshUsed, activeSignin, signedOut, storeB, kv>>

\* the handler resumes after its store call and answers
ConcurrentRespond(r) ==
    LET res == ConcurrentStep(req[r], store, storeHasDelete, req[r].out)
    IN /\ req[r].pc = "resumed"
       /\ req' = [req EXCEPT ![r] = res.ctx]
       /\ store' = res.store
       /\ UNCHANGED <<storeHasDelete, freshUsed, activeSignin, signedOut, storeB, kv>>

\* POST /callback arrives and the verifier answers
ConcurrentCallback(r, I) ==
    /\ req[r].pc = "idle"
    /\ CallbackRequest(r, I)

NextConcurrent ==
    \/ \E r \in Slots : ConcurrentBegin(r, ConcurrentInputs)
    \/ \E r \in Slots : ConcurrentStoreCall(r)
    \/ \E r \in Slots : ConcurrentRespond(r)
    \/ \E r \in Slots : ConcurrentCallback(r, ConcurrentInputs)
    \/ \E r \in Slots : CallbackPut(r)

SpecConcurrent == InitRace /\ [][NextConcurrent]_vars

----------------------------------------------------------------------------
(* Properties *)

\* request slot r finishes a request of the route in this step
Completes(r, route) ==
    /\ req'[r] # req[r]
    /\ req'[r].pc \in {"done", "raised"}
    /\ req'[r].route = route
Finished(r, route) == req[r].pc \in {"done", "raised"} /\ req[r].route = route

\* C1 as stated: in Simulated mode, after a successful test sign-in (n, e)
\* stored under id s and with no later sign-out or sign-in for s, every
\* session-middleware run on a request resolving to s sets the session to
\* {signedIn:true, sessionId:s, name:n, email:e, credential:"test-credential"}.
C1_AsStated ==
    [][\A r \in Slots :
        (/\ Completes(r, "session")
         /\ IsTestmode(req'[r])
         /\ req'[r].sid \in DOMAIN activeSignin)
        => req'[r].session =
             ValidSession(req'[r].sid, activeSignin[req'[r].sid][1],
                          activeSignin[req'[r].sid][2], "test-credential")]_vars

\* C1 amended: the same, for every such middleware run whose store get
\* returns (a get that throws gives Invalid "Session store error").
C1_ActiveSigninResolves ==
    [][\A r \in Slots :
        (/\ Completes(r, "session")
         /\ IsTestmode(req'[r])
         /\ req'[r].sid \in DOMAIN activeSignin
         /\ req'[r].out = "ok")
        => /\ req'[r].sessionSet
           /\ req'[r].session =
                ValidSession(req'[r].sid, activeSignin[req'[r].sid][1],
                             activeSignin[req'[r].sid][2], "test-credential")]_vars

C1_Witness ==
    \E r \in Slots :
        /\ Finished(r, "session")
        /\ IsTestmode(req[r])
        /\ req[r].sid = "s1"
        /\ "s1" \in DOMAIN activeSignin
        /\ activeSignin["s1"] = <<"Bob", "b@x">>
        /\ req[r].out = "ok"
        /\ req[r].session.signedIn

\* the session a Simulated-mode request with Cookie header h is given by the
\* middleware when the store is st and its get has the outcome out
ResolvedSession(h, st, out) ==
    RouteSession(OptionsMiddleware(NewCtx("session", TestOptions, h, NoBody)),
                 st, out).session

\* C2: a Simulated sign-out for id A changes no store entry other than A's:
\* every other id B keeps its record (and an id without a record gets none),
\* and a request resolving to B is given the same session after the sign-out
\* as before it, which is B's Valid record when the get returns.
C2_SignoutLeavesOthers ==
    [][\A r \in Slots :
        (Completes(r, "signout") /\ IsTestmode(req'[r]))
        => \A B \in (DOMAIN store \cup DOMAIN store') \ {req'[r].sid} :
              /\ B \in DOMAIN store /\ B \in DOMAIN store'
              /\ store'[B] = store[B]
              /\ \A h \in SimInputs.headers :
                    TestmodeSessionId(h) = B =>
                       /\ ResolvedSession(h, store', "ok") = store[B]
                       /\ ResolvedSession(h, store', "ok").signedIn
                       /\ \A out \in Outcomes :
                            ResolvedSession(h, store', out) = ResolvedSession(h, store, out)]_vars

C2_Witness ==
    \E r \in Slots :
        /\ Finished(r, "signout")
        /\ IsTestmode(req[r])
        /\ req[r].sid = "s2"
        /\ req[r].out = "ok"
        /\ "s2" \in signedOut
        /\ "s2" \notin DOMAIN store
        /\ "s1" \in DOMAIN store
        /\ TEST_SESSION_ID \in DOMAIN store

\* C3: in Simulated mode, once a sign-out for id s has completed with a
\* delete that succeeded, and until the next successful test sign-in for s,
\* every session resolution for s yields an Invalid session and the
\* protected route answers 401.
C3_SignedOutStaysInvalid ==
    [][\A r \in Slots :
        (/\ Completes(r, "session")
         /\ IsTestmode(req'[r])
         /\ req'[r].sid \in signedOut)
        => /\ req'[r].sessionSet
           /\ ~req'[r].session.signedIn
           /\ req'[r].resp.status = 401]_vars

C3_Witness ==
    \E r \in Slots :
        /\ Finished(r, "session")
        /\ IsTestmode(req[r])
        /\ req[r].sid = "s1"
        /\ "s1" \in signedOut
        /\ req[r].out = "ok"
        /\ req[r].resp.status = 401
        /\ "s2" \in DOMAIN store

\* C4 as stated: in Live mode, after GET /signout for a request carrying
\* session cookie value s, the record for s is no longer in the store (so a
\* request replaying s resolves to an Invalid session).
C4_LiveSignoutDeletes ==
    [][\A r \in Slots :
        (/\ Completes(r, "signout")
         /\ ~IsTestmode(req'[r])
         /\ Truthy(GetCookie(req'[r].header, CookieNameOf(req'[r].options))))
        => ~StoreHas(store', GetCookie(req'[r].header, CookieNameOf(req'[r].options)))]_vars

\* C5: Live resolve-session maps every request to exactly one outcome: no
\* session cookie or an empty one gives Invalid "No session cookie"; a cookie
\* whose id has no record gives Invalid "Session not found"; a get that throws
\* gives Invalid "Session store error"; otherwise the session is the record
\* the store holds for the cookie's id.
C5_LiveResolveOutcomes ==
    [][\A r \in Slots :
        (Completes(r, "session") /\ ~IsTestmode(req'[r]))
        => LET c == req'[r]
               v == GetCookie(c.header, CookieNameOf(c.options))
           IN /\ ~Truthy(v) =>
                    /\ c.session = InvalidSession("No session cookie")
                    /\ ~StoreCalled(c)
              /\ (Truthy(v) /\ c.out = "throws") =>
                    c.session = InvalidSession("Session store error")
              /\ (Truthy(v) /\ c.out = "ok" /\ v \notin DOMAIN store) =>
                    c.session = InvalidSession("Session not found")
              /\ (Truthy(v) /\ c.out = "ok" /\ v \in DOMAIN store) =>
                    c.session = store[v]
              /\ Truthy(v) => c.out \in Outcomes]_vars

C5_Witness ==
    \E r \in Slots :
        /\ Finished(r, "session")
        /\ ~IsTestmode(req[r])
        /\ req[r].out = "ok"
        /\ req[r].sid = "uuid-1"
        /\ req[r].session.signedIn
        /\ req[r].session.sessionId = "uuid-1"

Count(calls, what) == Cardinality({i \in 1..Len(calls) : calls[i] = what})
FirstIndex(calls, what) ==
    CHOOSE i \in 1..Len(calls) :
        calls[i] = what /\ \A j \in 1..(i - 1) : calls[j] # what

\* C6: for both strategies and every behaviour of the store's get, the
\* session middleware does not throw; it sets the session value first and
\* then invokes the next handler exactly once.
C6_MiddlewareSetsThenNext ==
    [][\A r \in Slots :
        Completes(r, "session")
        => LET c == req'[r]
           IN /\ c.pc = "done"
              /\ c.sessionSet
              /\ Count(c.calls, "set-session") = 1
              /\ Count(c.calls, "next") = 1
              /\ FirstIndex(c.calls, "set-session") < FirstIndex(c.calls, "next")]_vars

C6_Witness ==
    \E r \in Slots :
        /\ Finished(r, "session")
        /\ ~IsTestmode(req[r])
        /\ req[r].out = "throws"
        /\ req[r].pc = "done"
        /\ req[r].session.error = "Session store error"
        /\ Count(req[r].calls, "next") = 1

\* C7: when the Live callback's verification fails (non-2xx answer, or the
\* verifier call raises), the response is status 200 with body exactly
\* "Invalid Google Sign-In", put is never invoked, no cookie is set and the
\* store is unchanged.
C7_FailedVerification ==
    [][\A r \in Slots :
        (/\ Completes(r, "callback")
         /\ ~IsTestmode(req'[r])
         /\ req'[r].reply.kind \in {"non2xx", "raises"})
        => LET c == req'[r]
           IN /\ c.pc = "done"
              /\ c.resp.status = 200
              /\ c.resp.kind = "text"
              /\ c.resp.text = "Invalid Google Sign-In"
              /\ c.resp.setCookie = <<>>
              /\ ~Called(c, "put")
              /\ store' = store]_vars

C7_Witness ==
    \E r \in Slots :
        /\ Finished(r, "callback")
        /\ ~IsTestmode(req[r])
        /\ req[r].reply.kind = "raises"
        /\ req[r].resp.text = "Invalid Google Sign-In"
        /\ "uuid-1" \in DOMAIN store

\* C8: a successful Live callback performs verifier call, put of a Valid
\* record (fresh session id, name and email from the identity claim,
\* credential from the request), set-cookie, redirect to "/", in this order;
\* put happens only after the verifier succeeded and the cookie's value is
\* the sessionId of the record put has stored.
C8_CallbackOrder ==
    [][\A r \in Slots :
        (/\ Completes(r, "callback")
         /\ ~IsTestmode(req'[r])
         /\ req'[r].resp.status = 302)
        => LET c == req'[r]
               id == c.resp.setCookie[1].value
           IN /\ c.reply.kind = "ok"
              /\ c.calls = <<"provider", "verify", "put", "set-cookie", "respond">>
              /\ Len(c.resp.setCookie) = 1
              /\ c.resp.setCookie[1].name = CookieNameOf(c.options)
              /\ id \notin DOMAIN store
              /\ id \in DOMAIN store'
              /\ store'[id] = ValidSession(id, c.reply.info.name, c.reply.info.email,
                                           c.body.credential)
              /\ \A k \in DOMAIN store : k \in DOMAIN store' /\ store'[k] = store[k]
              /\ c.resp.location = "/"]_vars

C8_Witness ==
    \E r \in Slots :
        /\ Finished(r, "callback")
        /\ ~IsTestmode(req[r])
        /\ req[r].resp.status = 302
        /\ req[r].reply.info.name = "Alice"
        /\ req[r].body.credential = "cred-1"
        /\ "uuid-1" \in DOMAIN store
        /\ req[r].resp.setCookie[1].value = "uuid-1"

\* C9 as stated: no Strategy operation of either variant lets a store
\* exception or a verifier failure escape as an unhandled exception.
C9_NoFailureEscapes ==
    \A r \in Slots :
        req[r].pc = "raised"
        => /\ req[r].out # "throws"
           /\ req[r].reply.kind \notin {"non2xx", "raises"}

\* C10 as stated: POST /test/signin in Simulated mode answers a body that
\* does not parse with 400 "Invalid JSON body" and a parsed body whose name
\* or email is absent or empty with 400 "email and name are required"; in
\* both cases the store is not called and is unchanged and no cookie is set.
C10_BadInputRejected ==
    [][\A r \in Slots :
        (Completes(r, "testSignin") /\ IsTestmode(req'[r]))
        => LET c == req'[r]
               b == c.body
               rejected(msg) ==
                   /\ c.pc = "done"
                   /\ c.resp.status = 400
                   /\ c.resp.text = msg
                   /\ c.resp.setCookie = <<>>
                   /\ ~StoreCalled(c)
                   /\ store' = store
           IN /\ b.syntax = "malformed" => rejected("Invalid JSON body")
              /\ (b.syntax # "malformed" /\ (~Truthy(b.name) \/ ~Truthy(b.email)))
                    => rejected("email and name are required")]_vars


C12_SignoutClearsScopeCookie ==
    [][\A r \in Slots :
        (Completes(r, "signout") /\ IsTestmode(req'[r]))
        => LET c == req'[r]
           IN /\ c.sid # "testmode-session" =>
                    /\ Len(c.resp.setCookie) = 1
                    /\ c.resp.setCookie[1].name = "testmode-session-id"
                    /\ c.resp.setCookie[1].value = ""
                    /\ c.resp.setCookie[1].maxAge = 0
              /\ c.sid = "testmode-session" => c.resp.setCookie = <<>>]_vars


\* the same GET /signout issued once more, with the same options and Cookie
\* header, against the store the first one left, delete behaving as o
SignoutAgain(c, st, hasDelete, o) ==
    Record(RouteSignout(OptionsMiddleware(NewCtx("signout", c.options, c.header, NoBody)),
                        st, hasDelete, o).ctx, o)

C14_EmptyScopeCookieIsDefault ==
    [][\A r \in Slots :
        (/\ \/ Completes(r, "session")
            \/ Completes(r, "signin")
            \/ Completes(r, "signout")
         /\ IsTestmode(req'[r])
         /\ req'[r].header.present
         /\ \E i \in DOMAIN req'[r].header.pairs :
               /\ req'[r].header.pairs[i].name = "testmode-session-id"
               /\ req'[r].header.pairs[i].val = <<"">>
         /\ \A i \in DOMAIN req'[r].header.pairs :
               req'[r].header.pairs[i].name = "testmode-session-id"
               => req'[r].header.pairs[i].val = <<"">>)
        => req'[r].sid = "testmode-session"]_vars


\* C20: when the store's put throws during an otherwise valid
\* POST /test/signin, the response is status 500 with body
\* {error: "Failed to store session"}, it carries no scoping cookie even if a
\* sessionID was supplied, the store is left as it was, and the handler does
\* not raise.
C20_PutFailureAnswers500 ==
    [][\A r \in Slots :
        (/\ Completes(r, "testSignin")
         /\ IsTestmode(req'[r])
         /\ req'[r].body.syntax = "object"
         /\ req'[r].body.email \notin {Undef, ""}
         /\ req'[r].body.name \notin {Undef, ""}
         /\ req'[r].out = "throws")
        => /\ req'[r].pc = "done"
           /\ req'[r].resp.status = 500
           /\ req'[r].resp.kind = "json-error"
           /\ req'[r].resp.text = "Failed to store session"
           /\ req'[r].resp.setCookie = <<>>
           /\ store' = store]_vars

C20_Witness ==
    \E r \in Slots :
        /\ Finished(r, "testSignin")
        /\ IsTestmode(req[r])
        /\ req[r].body.sessionID = "s1"
        /\ req[r].out = "throws"
        /\ req[r].calls = <<"provider", "put", "respond">>
        /\ req[r].resp.status = 500


\* C17 as stated: for every request, whichever combination of the mounted
\* auth routes and the session middleware it passes through, the options
\* provider is invoked exactly once, and before any strategy operation.
C17_ProviderOncePerRequest ==
    \A r \in Slots :
        req[r].pc \in {"done", "raised", "verified"}
        => /\ Count(req[r].calls, "provider") = 1
           /\ req[r].calls[1] = "provider"

\* C18: POST /test/signin answers status 400 with {error: "Testmode not
\* enabled"} whenever the request's options select the Live strategy (any
\* mode other than 'testmode'); the store is neither read nor written and no
\* cookie is set.
C18_TestSigninNeedsTestmode ==
    [][\A r \in Slots :
        (Completes(r, "testSignin") /\ req'[r].options.mode # "testmode")
        => /\ req'[r].pc = "done"
           /\ req'[r].resp.status = 400
           /\ req'[r].resp.kind = "json-error"
           /\ req'[r].resp.text = "Testmode not enabled"
           /\ req'[r].resp.setCookie = <<>>
           /\ req'[r].calls = <<"provider", "respond">>
           /\ store' = store]_vars

C18_Witness ==
    \E r \in Slots :
        /\ Finished(r, "testSignin")
        /\ req[r].options.mode = Undef
        /\ req[r].body.syntax = "object"
        /\ req[r].body.name = "Alice"
        /\ req[r].body.email = "a@x"
        /\ req[r].resp.status = 400
        /\ store # <<>>

\* C19: two Live sign-in callbacks that differ only in why verification
\* failed (the verifier answered non-2xx, or the call to it raised) get
\* identical responses and leave identical store states.
C19_FailureCauseInvisible ==
    [][\A r \in Slots :
        (/\ Completes(r, "callback")
         /\ req'[r].options.mode # "testmode"
         /\ req'[r].reply.kind \in {"non2xx", "raises"})
        => \A k \in {"non2xx", "raises"} :
              LET c == req'[r]
                  d == LivemodeCallbackVerify(
                           OptionsMiddleware(NewCtx("callback", c.options, c.header, c.body)),
                           VerifierReply(k, NoTokenInfo))
              IN /\ d.pc = c.pc
                 /\ d.resp = c.resp
                 /\ d.calls = c.calls
                 /\ store' = store]_vars

C19_Witness ==
    \E r \in Slots :
        /\ Finished(r, "callback")
        /\ req[r].options.mode = "livemode"
        /\ req[r].reply.kind = "raises"
        /\ req[r].body.credential = "cred-1"
        /\ req[r].resp.text = "Invalid Google Sign-In"
        /\ store # <<>>


\* C15: for every Cookie header (absent, one pair, several pairs, the
\* scoping cookie more than once, empty values) the session middleware, the
\* sign-in rendering and sign-out compute the same session id, and it is the
\* id the handler that ran used.
C15_SameIdInEveryHandler ==
    \A r \in Slots :
        LET h == req[r].header
        IN /\ TestmodeSessionId(h) = SigninSessionId(h)
           /\ SigninSessionId(h) = SignoutSessionId(h)
           /\ (req[r].pc = "done" /\ req[r].route \in {"session", "signin", "signout"})
              => req[r].sid = TestmodeSessionId(h)

C15_Witness ==
    \E r \in Slots :
        /\ Finished(r, "signout")
        /\ Len(req[r].header.pairs) = 2
        /\ req[r].header.pairs[1] = Pair("testmode-session-id", <<"s1">>)
        /\ req[r].header.pairs[2] = Pair("testmode-session-id", <<"">>)
        /\ req[r].sid = "s1"

\* C16 as stated: the scoping cookie round-trips the session id: for every
\* non-empty sessionID that test sign-in accepts, sending the scoping cookie
\* back exactly as the sign-in response set it makes the session middleware,
\* the sign-in rendering and sign-out resolve to that same sessionID.
C16_ScopeCookieRoundTrip ==
    [][\A r \in Slots :
        (/\ Completes(r, "testSignin")
         /\ req'[r].resp.status = 200
         /\ req'[r].body.sessionID \notin {Undef, ""})
        => /\ Len(req'[r].resp.setCookie) = 1
           /\ LET h == EchoHeader(req'[r].resp.setCookie[1])
              IN /\ TestmodeSessionId(h) = req'[r].body.sessionID
                 /\ SigninSessionId(h) = req'[r].body.sessionID
                 /\ SignoutSessionId(h) = req'[r].body.sessionID]_vars


\* C21 as stated: Live GET /signin responds with a redirect to "/" exactly
\* when the request carries a session cookie whose id the store maps to a
\* signed-in record; in every other case it renders the sign-in page, with
\* the caller-supplied renderer when one is configured and the default button
\* otherwise.
C21_LiveSigninRedirectOrPage ==
    [][\A r \in Slots :
        (Completes(r, "signin") /\ req'[r].options.mode # "testmode")
        => LET c == req'[r]
               v == GetCookie(c.header, CookieNameOf(c.options))
               hit == /\ v \notin {Undef, ""}
                      /\ v \in DOMAIN store
                      /\ store[v].signedIn
           IN /\ hit => /\ c.pc = "done"
                        /\ c.resp.kind = "redirect"
                        /\ c.resp.location = "/"
              /\ ~hit => /\ c.pc = "done"
                         /\ c.resp.kind = "html"
                         /\ c.resp.status = 200
                         /\ c.resp.text = IF c.options.renderSignInPage
                                          THEN "custom-page" ELSE "google-button"
              /\ store' = store]_vars


\* C22: Simulated GET /signin returns the JSON body {message: "Already signed
\* in", session} exactly when the store's get returns a record for the
\* resolved session id, with session equal to that record; when the record is
\* absent or the get throws it returns the HTML sign-in form with status 200.
C22_SimSigninJsonOrForm ==
    [][\A r \in Slots :
        (Completes(r, "signin") /\ req'[r].options.mode = "testmode")
        => LET c == req'[r]
               returned == c.out = "ok" /\ c.sid \in DOMAIN store
           IN /\ c.pc = "done"
              /\ c.resp.status = 200
              /\ c.calls = <<"provider", "get", "respond">>
              /\ returned => /\ c.resp.kind = "json"
                             /\ c.resp.text = "Already signed in"
                             /\ c.resp.session = store[c.sid]
              /\ ~returned => /\ c.resp.kind = "html"
                              /\ c.resp.text = "testmode-form"
                              /\ c.resp.session = NoSession
              /\ c.resp.setCookie = <<>>
              /\ store' = store]_vars

C22_Witness ==
    \E r \in Slots :
        /\ Finished(r, "signin")
        /\ req[r].options.mode = "testmode"
        /\ req[r].sid = "s1"
        /\ "s1" \in DOMAIN store
        /\ req[r].out = "throws"
        /\ req[r].resp.kind = "html"

\* C23: Simulated POST /callback is a no-op: for every request body and
\* cookie it responds with a redirect to "/", makes no store call, leaves the
\* store unchanged and sets no cookie.
C23_SimCallbackNoOp ==
    [][\A r \in Slots :
        (Completes(r, "callback") /\ req'[r].options.mode = "testmode")
        => /\ req'[r].pc = "done"
           /\ req'[r].resp.kind = "redirect"
           /\ req'[r].resp.status = 302
           /\ req'[r].resp.location = "/"
           /\ req'[r].resp.setCookie = <<>>
           /\ req'[r].calls = <<"provider", "respond">>
           /\ store' = store]_vars

C23_Witness ==
    \E r \in Slots :
        /\ Finished(r, "callback")
        /\ req[r].options.mode = "testmode"
        /\ req[r].body.credential = "cred-1"
        /\ req[r].header = Header(<<Pair("testmode-session-id", <<"s1">>)>>)
        /\ "s1" \in DOMAIN store
        /\ req[r].resp.kind = "redirect"


\* C24: for the KV-backed session store, put(record) followed by
\* get(record.sessionId) returns a record equal field for field to the one
\* put; after delete(id), get(id) returns absent; and get of an id never put
\* returns absent.
C24_KVRoundTrip ==
    [][\A r \in Slots :
        LET c == req'[r]
        IN /\ (Completes(r, "kvPut") /\ c.out = "ok")
              => LET got == KVStoreGet(kv', c.session.sessionId)
                 IN /\ got.found
                    /\ got.data.signedIn = c.session.signedIn
                    /\ got.data.sessionId = c.session.sessionId
                    /\ got.data.name = c.session.name
                    /\ got.data.email = c.session.email
                    /\ got.data.credential = c.session.credential
           /\ (Completes(r, "kvDelete") /\ c.out = "ok")
              => ~KVStoreGet(kv', c.sid).found
           /\ (Completes(r, "kvGet") /\ c.out = "ok")
              => IF c.sid \in DOMAIN activeSignin
                 THEN c.sessionSet /\ c.session = activeSignin[c.sid]
                 ELSE ~c.sessionSet]_vars

C24_Witness ==
    \E r \in Slots :
        /\ Finished(r, "kvGet")
        /\ req[r].out = "ok"
        /\ req[r].sid = "uuid-1"
        /\ req[r].sessionSet
        /\ req[r].session.name = Undef
        /\ req[r].session.credential = "cred-1"
        /\ "s1" \in DOMAIN kv
        /\ Len(kv["uuid-1"]) = 4


\* C25: two auth instances configured with different store instances are
\* independent: a sign-in or sign-out request against one instance leaves
\* the other instance's store, and the sessions resolved through it,
\* unchanged, even though both use the same fixed default session id.
C25_InstancesIndependent ==
    [][\A r \in Slots :
        (Completes(r, "testSignin") \/ Completes(r, "signout"))
        => \A other \in Apps \ {req'[r].app} :
              LET before == SessionStoreOf(other, store, storeB)
                  after == SessionStoreOf(other, store', storeB')
              IN /\ after = before
                 /\ \A h \in TwoInputs.headers, out \in Outcomes :
                       ResolvedSession(h, after, out) = ResolvedSession(h, before, out)]_vars

C25_Witness ==
    \E r \in Slots :
        /\ Finished(r, "testSignin")
        /\ req[r].app = "app2"
        /\ req[r].resp.status = 200
        /\ "testmode-session" \in DOMAIN store
        /\ "testmode-session" \in DOMAIN storeB
        /\ store["testmode-session"].name = "Alice"
        /\ storeB["testmode-session"].name = "Bob"


\* C26: session resolution and sign-in rendering (both strategies) never
\* call put or delete: the store's contents are identical before and after
\* them, and the session value the middleware sets is either exactly the
\* record returned by get or an Invalid value; the only operations that add
\* a record are a successful Live callback and a successful test sign-in.
C26_OnlySigninAddsRecords ==
    [][/\ \A r \in Slots :
            (Completes(r, "session") \/ Completes(r, "signin"))
            => LET c == req'[r]
               IN /\ store' = store
                  /\ ~Called(c, "put")
                  /\ ~Called(c, "delete")
                  /\ c.route = "session" =>
                        /\ c.sessionSet
                        /\ \/ ~c.session.signedIn
                           \/ /\ c.out = "ok"
                              /\ c.sid \in DOMAIN store
                              /\ c.session = store[c.sid]
       /\ \A k \in DOMAIN store' :
            (k \notin DOMAIN store \/ store'[k] # store[k])
            => \E r \in Slots :
                  LET c == req'[r]
                  IN /\ c.sid = k
                     /\ Called(c, "put")
                     /\ c.out = "ok"
                     /\ \/ /\ Completes(r, "callback")
                           /\ c.options.mode # "testmode"
                           /\ c.resp.status = 302
                        \/ /\ Completes(r, "testSignin")
                           /\ c.options.mode = "testmode"
                           /\ c.resp.status = 200]_vars

C26_Witness ==
    \E r \in Slots :
        /\ Finished(r, "session")
        /\ req[r].options.mode = "testmode"
        /\ req[r].out = "ok"
        /\ req[r].sid = "s1"
        /\ req[r].session.signedIn
        /\ req[r].session = store["s1"]
        /\ "uuid-1" \in DOMAIN store


\* C27: when two test sign-in requests for the same session id run
\* concurrently with different name/email, both respond with success, and the
\* store holds under that id exactly the complete record of whichever put
\* was applied last, never a mixture of the two records' fields.
C27_LastWriteWins ==
    [][\A r \in Slots :
        LET c == req'[r]
            b == c.body
            id == IF b.sessionID \notin {Undef, ""} THEN b.sessionID ELSE "testmode-session"
        IN /\ (req[r].pc = "parsed" /\ c.pc = "stored" /\ c.out = "ok")
              => /\ id \in DOMAIN store'
                 /\ store'[id] = ValidSession(id, b.name, b.email, "test-credential")
                 /\ \A k \in DOMAIN store' \ {id} : k \in DOMAIN store /\ store'[k] = store[k]
           /\ (req[r].pc = "stored" /\ c.pc = "done" /\ c.out = "ok")
              => /\ c.resp.status = 200
                 /\ c.resp.text = "success"
                 /\ c.resp.session = ValidSession(id, b.name, b.email, "test-credential")
                 /\ store' = store
                 /\ \E w \in RaceInputs.bodies :
                       /\ w.syntax = "object"
                       /\ w.sessionID = b.sessionID
                       /\ store'[id] = ValidSession(id, w.name, w.email, "test-credential")]_vars

C27_Witness ==
    /\ req["r1"].pc = "stored"
    /\ req["r2"].pc = "stored"
    /\ req["r1"].out = "ok"
    /\ req["r2"].out = "ok"
    /\ req["r1"].sid = "s1"
    /\ req["r2"].sid = "s1"
    /\ req["r1"].body.name = "Alice"
    /\ req["r2"].body.name = "Bob"
    /\ store["s1"] = ValidSession("s1", "Alice", "a@x", "test-credential")


\* C28: every strategy operation makes at most one store call per request,
\* and the Live callback at most one verifier call; when that call fails no
\* second attempt is made within the request, and the request's outcome
\* (Invalid session, sign-in failure, or error response) stands.
C28_NoRetry ==
    \A r \in Slots :
        LET c == req[r]
            storeCalls == Count(c.calls, "get") + Count(c.calls, "put")
                             + Count(c.calls, "delete")
        IN /\ storeCalls <= 1
           /\ Count(c.calls, "verify") <= 1
           /\ (c.pc \in {"done", "raised"} /\ c.out = "throws")
              => /\ storeCalls = 1
                 /\ c.route = "session" => c.sessionSet /\ ~c.session.signedIn
                 /\ c.route = "testSignin" => c.resp.status = 500
                 /\ (c.route = "signin" /\ c.pc = "done") => c.resp.kind = "html"
                 /\ c.route = "callback" => c.resp.kind # "redirect"
           /\ c.reply.kind \in {"non2xx", "raises"}
              => /\ Count(c.calls, "verify") = 1
                 /\ storeCalls = 0
                 /\ c.pc = "done"
                 /\ c.resp.text = "Invalid Google Sign-In"

C28_Witness ==
    \E r \in Slots :
        /\ Finished(r, "session")
        /\ req[r].options.mode = "livemode"
        /\ req[r].out = "throws"
        /\ req[r].sid = "uuid-1"
        /\ "uuid-1" \in DOMAIN store
        /\ req[r].calls = <<"provider", "get", "set-session", "next", "respond">>
        /\ req[r].session.error = "Session store error"


\* a Cookie header without a scoping cookie
NoScopeCookie(h) ==
    \A i \in DOMAIN h.pairs : h.pairs[i].name # "testmode-session-id"

ScopeView(h) == SelectSeq(h.pairs, LAMBDA p : p.name = "testmode-session-id")

\* C30: in Simulated mode the resolved session id depends only on the scoping
\* cookie: two requests that agree on the scoping cookie but differ in the
\* presence or value of the configured primary session cookie (or any other
\* cookie) resolve to the same session id and are given the same session.
C30_OnlyScopeCookieCounts ==
    [][\A r \in Slots :
        (Completes(r, "session") /\ req'[r].options.mode = "testmode")
        => \A h2 \in CookieHeaders :
              ScopeView(h2) = ScopeView(req'[r].header)
              => LET d == RouteSession(
                             OptionsMiddleware(NewCtx("session", req'[r].options, h2, NoBody)),
                             store, req'[r].out)
                 IN /\ d.sid = req'[r].sid
                    /\ d.session = req'[r].session
                    /\ d.resp = req'[r].resp]_vars

C30_Witness ==
    \E r \in Slots :
        /\ Finished(r, "session")
        /\ req[r].options.mode = "testmode"
        /\ req[r].header = Header(<<Pair("auth_session_cookie", <<"s1">>)>>)
        /\ req[r].out = "ok"
        /\ req[r].sid = "testmode-session"
        /\ ~req[r].session.signedIn
        /\ "s1" \in DOMAIN store

\* C31: the session cookie set by a successful Live callback carries
\* Max-Age equal to the configured sessionDurationSeconds for every
\* configured value, and one year (31536000 seconds) only when no duration is
\* configured.
C31_MaxAgeIsConfiguredDuration ==
    [][\A r \in Slots :
          (/\ Completes(r, "callback")
           /\ req'[r].resp.setCookie # <<>>)
          => LET dur == req'[r].options.sessionDurationSeconds
                 age == req'[r].resp.setCookie[1].maxAge
             IN /\ dur # NoMaxAge => age = dur
                /\ age = DefaultSessionDuration /\ dur # DefaultSessionDuration
                   => dur = NoMaxAge]_vars

\* C32: in Simulated mode, after a successful test sign-in, the next request
\* from the same client (sending the cookies it already held, updated by the
\* response's Set-Cookie) resolves to the session that sign-in just created,
\* also when the client held a scoping cookie for another id and supplied no
\* sessionID.  Read with the created record still in the store and the
\* store read returning.
C32_NextRequestSeesSignin ==
    [][LET before == req["r1"]
           created == before.resp.session
       IN (/\ before.pc = "done"
           /\ before.route = "testSignin"
           /\ before.resp.status = 200
           /\ req'["r1"] # before
           /\ req'["r1"].route = "session"
           /\ req'["r1"].out = "ok"
           /\ StoreHas(store, created.sessionId)
           /\ store[created.sessionId] = created)
          => req'["r1"].session = created]_vars

\* C33: in Simulated mode, after a client signs out (store delete
\* succeeding) and applies the response's cookie changes, that client's next
\* request resolves to an Invalid session, whatever other sessions exist in
\* the store.  Read with the signed-out id still absent from the store and
\* the store read returning.
C33_SignedOutClientIsInvalid ==
    [][LET before == req["r1"]
       IN (/\ before.pc = "done"
           /\ before.route = "signout"
           /\ storeHasDelete
           /\ before.out = "ok"
           /\ req'["r1"] # before
           /\ req'["r1"].route = "session"
           /\ req'["r1"].out = "ok"
           /\ ~StoreHas(store, before.sid))
          => ~req'["r1"].session.signedIn]_vars

\* the requests of the slots in `order`, each run as a whole, one after the
\* other, from the store st, with the store outcomes, verifier answers and
\* fresh ids the requests met: the final store and each request's context
RECURSIVE Sequential(_, _)
Sequential(order, st) ==
    IF order = <<>> THEN [store |-> st, ctx |-> <<>>]
    ELSE LET c == req[Head(order)]
             res == IF c.route # "callback"
                    THEN Handle(Arrived(c), st, storeHasDelete, c.out)
                    ELSE IF IsTestmode(c)
                    THEN [ctx |-> TestmodeCallbackImpl(Arrived(c)), store |-> st]
                    ELSE LET v == LivemodeCallbackVerify(Arrived(c), c.reply)
                         IN IF v.pc = "verified"
                            THEN LivemodeCallbackPut(v, st, c.sid, c.out)
                            ELSE [ctx |-> v, store |-> st]
             rest == Sequential(Tail(order), res.store)
         IN [store |-> rest.store, ctx |-> <<res.ctx>> \o rest.ctx]

SameAnswer(c, d) ==
    /\ c.pc = d.pc
    /\ c.resp = d.resp
    /\ c.sessionSet = d.sessionSet
    /\ c.session = d.session

\* C34: with requests to the session middleware, GET /signin,
\* POST /test/signin, POST /callback and GET /signout in flight at once,
\* whenever all of them have finished, the store and every request's
\* response and session are those of running the same requests one after
\* the other in some order.
C34_Serializable ==
    (\A r \in Slots : req[r].pc \in {"done", "raised"})
    => \E order \in {<<"r1", "r2">>, <<"r2", "r1">>} :
          LET seq == Sequential(order, <<>>)
          IN /\ store = seq.store
             /\ \A i \in 1..2 : SameAnswer(req[order[i]], seq.ctx[i])

\* two requests have finished whose store calls were made while the other
\* was in flight: a sign-in that stored a record and a request that read it
C34_Witness ==
    /\ \A r \in Slots : req[r].pc = "done"
    /\ req["r1"].route = "testSignin"
    /\ req["r1"].resp.status = 200
    /\ req["r2"].route = "session"
    /\ req["r2"].session.signedIn
    /\ req["r2"].session.name = "Alice"
    /\ store # <<>>

\* a well-formed Valid record
WellFormed(rec) ==
    /\ rec.signedIn
    /\ Truthy(rec.sessionId)
    /\ Truthy(rec.name)
    /\ Truthy(rec.email)

\* C35: every record the library writes to the store is a well-formed Valid
\* record: signedIn is true, sessionId is a non-empty string, and name and
\* email are present non-empty strings, for the Live callback for every 2xx
\* verifier response as for test sign-in.
C35_RecordsWellFormed ==
    \A id \in DOMAIN store : WellFormed(store[id])

\* C36: the Live callback creates a session only for a credential whose
\* verified identity claim was issued for this application: a 2xx verifier
\* response whose audience differs from the configured clientId leads
\* neither to a put nor to a session cookie.
C36_AudienceIsThisClient ==
    [][\A r \in Slots :
          (/\ req'[r] # req[r]
           /\ req'[r].route = "callback"
           /\ req'[r].reply.kind = "ok"
           /\ \/ Called(req'[r], "put")
              \/ req'[r].resp.setCookie # <<>>)
          => req'[r].reply.info.aud = req'[r].options.clientId]_vars

====
